---------------------------- MODULE Spec2Model ----------------------------
(***************************************************************************)
(* A model of the busybusy export services: the cursor paginators of the   *)
(* five services, the chunked budget fetch of BudgetService and the        *)
(* hierarchy flattening of ProjectService.prepare_hierarchy.               *)
(*                                                                         *)
(* Three specifications share the module:                                  *)
(*   SpecPaginate   one pagination run of one of the five paginators       *)
(*                  against an arbitrary upstream;                         *)
(*   SpecBudget     BudgetService: a dataset fetch over chunks of project  *)
(*                  ids, and the whole of fetch_all_budgets;               *)
(*   SpecHierarchy  prepare_hierarchy applied to a bounded forest.         *)
(***************************************************************************)
EXTENDS Integers, Sequences, FiniteSets, TLC

VARIABLES
    \* ---- one pagination run (SpecPaginate) ----
    pKind,       \* which paginator runs
    pPc,         \* "idle" | "loop" | "await" | "done" | "error"
    pCursor,     \* after_cursor / cursor: the loop variable
    pAll,        \* all_projects / all_data / all_cost_codes / ...
    pRequests,   \* history: the page requests sent, in order
    pResps,      \* history: the responses received, in order
    pServed,     \* number of records the upstream has put into responses
    pResult,     \* what the run handed to its caller
    \* ---- prepare_hierarchy (SpecHierarchy) ----
    hForest,     \* projects: the roots and everything below them
    hView,       \* is_archived
    hPc,         \* "call" | "returned"
    hRows,       \* the list prepare_hierarchy returned
    \* ---- _process_projects_in_batches (SpecBatches) ----
    tBatchSize,  \* processing_batch_size
    tBatches,    \* the _process_batch tasks, by batch index
    tSem,        \* the semaphore of the call: free slots
    tResult,     \* what _process_projects_in_batches returned
    \* ---- BudgetService (SpecBudget) ----
    bEntry,      \* the entry point called: "all" for fetch_all_budgets, or the
                 \* key of a dataset for _fetch_all_budget_hours, _costs or
                 \* _progress_budgets called on a list of ids
    bUpProjects, \* upstream: how many projects match the view
    bUpRecs,     \* upstream: records of each dataset per project
    bIds,        \* project_ids
    bRuns,       \* the _fetch_all_with_cursor coroutines, by <<key, chunk no>>
    bCC,         \* the cost-code query: "none" | "await" | "ok" | "failed"
    bCall,       \* where the entry point stands
    bResult,     \* what the entry point handed to its caller
    \* ---- _combine_hierarchical_data (SpecCombine, SpecCombineBad, SpecSort) ----
    cIn,         \* the arguments: hours, costs, progress, cost_codes, project_info
    cPc,         \* "idle" | "call" | "done"
    cOut,        \* what the call returned, or that it raised
    \* ---- convert_utc_to_timezone (SpecTimezone) ----
    zDt,         \* dt: the timestamp, a string
    zTz,         \* timezone_str: the zone descriptor, a string
    zPc,         \* "idle" | "call" | "done"
    zOut,        \* the string returned
    \* ---- RedisCache and the redis_cache decorator (SpecRedis) ----
    rClient,     \* redis_client is not None
    rStore,      \* the Redis store: the entries, as <<full key, value>>
    rLast,       \* history: the last operation and what it returned
    \* ---- the request handlers of main.py (SpecRequests) ----
    qReq,        \* the request: endpoint, api_key, timezone, is_archived
    qPc,         \* "idle" | "received" | "fetching" | "responded"
    qStatus,     \* the status of the response, 0 before it
    qBody,       \* the rows of the response
    qFetch       \* history: a fetch of the service was started

pagVars == <<pKind, pPc, pCursor, pAll, pRequests, pResps, pServed, pResult>>

batchVars == <<tBatchSize, tBatches, tSem, tResult>>

hierVars == <<hForest, hView, hPc, hRows, batchVars>>

combVars == <<cIn, cPc, cOut>>

budVars == <<bEntry, bUpProjects, bUpRecs, bIds, bRuns, bCC, bCall, bResult, combVars>>

tzVars == <<zDt, zTz, zPc, zOut>>

redisVars == <<rClient, rStore, rLast>>

reqVars == <<qReq, qPc, qStatus, qBody, qFetch>>

moreVars == <<tzVars, redisVars, reqVars>>

\* What an operation of one part leaves alone.
notTz == <<pagVars, hierVars, budVars, redisVars, reqVars>>

notRedis == <<pagVars, hierVars, budVars, tzVars, reqVars>>

notReq == <<pagVars, hierVars, budVars, tzVars, redisVars>>

vars == <<pagVars, hierVars, budVars, moreVars>>

(***************************************************************************)
(* Bounds of the model.  BatchSize stands for self.batch_size, which is    *)
(* 500 (projects) or 1000 (the other services) in the source: the loops    *)
(* only compare len(page) with it, so the model runs them with a small     *)
(* page size.                                                              *)
(***************************************************************************)
BatchSize == 2
MaxPages == 3
\* Nodes of the forest handed to prepare_hierarchy.
MaxNodes == 3

\* ChunkSize stands for the 50 ids of a chunk (project_ids[i:i + 50]).
ChunkSize == 2
\* Ids handed to a dataset fetch; projects and records the upstream holds.
MaxIds == 7
MaxBudgetProjects == 2
MaxRecsPerId == 2
\* Records in the hours, costs and progress handed to one aggregation.
MaxRecords == 2
\* Page fetches of the dataset runs that fail in one call.
MaxFailures == 1

\* processing_batch_size stands for the 2000 roots of a batch.
MaxBatchSize == 2
MaxSortProjects == 3

\* self.max_concurrent_batches
max_concurrent_batches == 2

\* self.max_concurrent
max_concurrent == 3

\* [""] * 7, and cleaned_names[:7]
PathLen == 7

\* A missing cursor: None, or any other value `not cursor` takes for absent.
NoCursor == <<>>

Last(s) == s[Len(s)]

Paginators == {"projects", "budget", "costCodes", "employees", "equipment"}

(***************************************************************************)
(* The upstream's answers.  A record carries an id and a cursor; the       *)
(* upstream numbers the records it serves, and a record's cursor is a      *)
(* token made of its id.  The last record of a page may lack its cursor.   *)
(***************************************************************************)
UpstreamRecord(i, withCursor) ==
    [id |-> i, cursor |-> IF withCursor THEN <<i>> ELSE NoCursor]

PagesFrom(served) ==
    { <<>> } \cup
    { [i \in 1..n |-> UpstreamRecord(served + i, i < n \/ lastHasCursor)] :
        n \in 1..BatchSize, lastHasCursor \in BOOLEAN }

ErrorsShapes == {"absent", "null", "empty", "nonempty"}

\* The body of an HTTP 200 answer: the "errors" member, the "data" member,
\* the collection inside it, and the records of the collection.
BodyShapes(served) ==
    { [data |-> "absent", coll |-> "absent", recs |-> <<>>],
      [data |-> "null",   coll |-> "absent", recs |-> <<>>],
      [data |-> "obj",    coll |-> "absent", recs |-> <<>>],
      [data |-> "obj",    coll |-> "null",   recs |-> <<>>] }
    \cup { [data |-> "obj", coll |-> "list", recs |-> p] : p \in PagesFrom(served) }

Response(status, errors, body) ==
    [status |-> status, errors |-> errors,
     data |-> body.data, coll |-> body.coll, recs |-> body.recs]

NoBody == [data |-> "absent", coll |-> "absent", recs |-> <<>>]

\* client.post raised: a connection error or the 60 s timeout.
TransportFailure == Response("transport", "absent", NoBody)
\* The upstream answered with a non-success HTTP status.
HttpFailure == Response("http", "absent", NoBody)

(***************************************************************************)
(* What each paginator does with an HTTP 200 body.                         *)
(***************************************************************************)
\* Whether handling the body raises.
BodyRaisesProjects(r) ==
    \* data.get("data", {}).get("projects", []): a null "data" has no .get;
    \* "errors" is never looked at.
    r.data = "null"

BodyRaisesBudget(r) ==
    \/ r.errors = "nonempty"
    \/ r.data = "null"

BodyRaisesCostCodes(r) ==
    \/ r.errors = "nonempty"
    \/ r.data = "null"

BodyRaisesEmployees(r) ==
    \/ r.errors = "nonempty"
    \/ r.data \in {"absent", "null"}
    \/ r.coll \in {"absent", "null"}

BodyRaisesEquipment(r) ==
    \* "errors" in data: a null "errors" cannot be iterated.
    \/ r.errors \in {"null", "nonempty"}
    \/ r.data = "null"

BodyRaises(kind, r) ==
    CASE kind = "projects"  -> BodyRaisesProjects(r)
      [] kind = "budget"    -> BodyRaisesBudget(r)
      [] kind = "costCodes" -> BodyRaisesCostCodes(r)
      [] kind = "employees" -> BodyRaisesEmployees(r)
      [] kind = "equipment" -> BodyRaisesEquipment(r)

\* The collection read from the body; a missing or null one reads as empty
\* in every test the loops make of it.
Collection(r) ==
    IF r.data = "obj" /\ r.coll = "list" THEN r.recs ELSE <<>>

\* all_projects.extend(projects_data)
ExtendDropsEarlier(all, page) == page

Extend(all, page) == all \o page

\* The cursor the loop continues with after a non-empty page; NoCursor
\* ends the loop.
NextCursorOfFirst(kind, page) ==
    IF Len(page) < BatchSize THEN NoCursor ELSE page[1].cursor

NextCursor(kind, page) ==
    IF kind = "budget"
    THEN \* data[-1].get("cursor") if len(data) == self.batch_size else None
         IF Len(page) = BatchSize THEN Last(page).cursor ELSE NoCursor
    ELSE \* if len(page) < self.batch_size: break; after_cursor = page[-1].get("cursor")
         IF Len(page) < BatchSize THEN NoCursor ELSE Last(page).cursor

\* How a run ends when the request fails (transport or HTTP status).
OnFailureBreaks(kind) == "done"

OnFailure(kind) == "error"

Returned(rows) == [ok |-> TRUE, rows |-> rows]
Raised == [ok |-> FALSE, rows |-> <<>>]
NotReturned == [ok |-> FALSE, rows |-> <<"pending">>]

NoRuns == [r \in {} |-> {}]

NoArguments == [hours |-> <<>>, costs |-> <<>>, progress |-> <<>>,
                cost_codes |-> <<>>, project_info |-> <<>>]

CombineIdle ==
    /\ cIn = NoArguments
    /\ cPc = "idle"
    /\ cOut = NotReturned

BudgetIdle ==
    /\ CombineIdle
    /\ bEntry = "none"
    /\ bUpProjects = 0
    /\ bUpRecs = 0
    /\ bIds = <<>>
    /\ bRuns = NoRuns
    /\ bCC = "none"
    /\ bCall = "idle"
    /\ bResult = NotReturned

BatchesIdle ==
    /\ tBatchSize = 0
    /\ tBatches = <<>>
    /\ tSem = 0
    /\ tResult = NotReturned

TimezoneIdle ==
    /\ zDt = <<>>
    /\ zTz = <<>>
    /\ zPc = "idle"
    /\ zOut = <<>>

NoOperation == [op |-> "none"]

RedisIdle ==
    /\ rClient = FALSE
    /\ rStore = {}
    /\ rLast = NoOperation

NoRows == [rows |-> "none"]

NoRequest == [endpoint |-> "none", api_key |-> <<>>, timezone |-> <<>>,
              is_archived |-> FALSE, upstream |-> "none"]

RequestsIdle ==
    /\ qReq = NoRequest
    /\ qPc = "idle"
    /\ qStatus = 0
    /\ qBody = NoRows
    /\ qFetch = FALSE

MoreIdle ==
    /\ TimezoneIdle
    /\ RedisIdle
    /\ RequestsIdle

NoForest == [parent |-> <<>>, title |-> <<>>, archivedOn |-> <<>>, shape |-> <<>>]

(***************************************************************************)
(* One pagination run.                                                     *)
(***************************************************************************)
InitPaginate ==
    /\ pKind \in Paginators
    /\ pPc = "loop"
    /\ pCursor = NoCursor
    /\ pAll = <<>>
    /\ pRequests = <<>>
    /\ pResps = <<>>
    /\ pServed = 0
    /\ pResult = NotReturned
    /\ hForest = NoForest
    /\ hView = FALSE
    /\ hPc = "idle"
    /\ hRows = <<>>
    /\ BatchesIdle
    /\ BudgetIdle
    /\ MoreIdle

\* The top of the loop: build the query with the current cursor and post it.
SendPageRequest ==
    /\ pPc = "loop"
    /\ Len(pRequests) < MaxPages
    /\ pRequests' = Append(pRequests, [after |-> pCursor, first |-> BatchSize])
    /\ pPc' = "await"
    /\ UNCHANGED <<pKind, pCursor, pAll, pResps, pServed, pResult>>
    /\ UNCHANGED <<hierVars, budVars, moreVars>>

\* The request failed: the exception leaves the loop.
FinishFailed(resp) ==
    /\ pResps' = Append(pResps, resp)
    /\ pPc' = OnFailure(pKind)
    /\ pResult' = IF OnFailure(pKind) = "error" THEN Raised ELSE Returned(pAll)
    /\ UNCHANGED <<pKind, pCursor, pAll, pRequests, pServed>>
    /\ UNCHANGED <<hierVars, budVars, moreVars>>

ReceiveTransportFailure ==
    /\ pPc = "await"
    /\ FinishFailed(TransportFailure)

ReceiveHttpFailure ==
    /\ pPc = "await"
    /\ FinishFailed(HttpFailure)

\* An HTTP 200 answer, handled to the end of the loop body.
ReceiveBody ==
    /\ pPc = "await"
    /\ \E errors \in ErrorsShapes, body \in BodyShapes(pServed) :
         LET resp == Response("ok", errors, body)
             page == Collection(resp)
             next == NextCursor(pKind, page)
         IN  /\ pResps' = Append(pResps, resp)
             /\ pServed' = pServed + Len(resp.recs)
             /\ IF BodyRaises(pKind, resp)
                THEN /\ pPc' = "error"
                     /\ pResult' = Raised
                     /\ UNCHANGED <<pCursor, pAll>>
                ELSE IF page = <<>>
                THEN \* if not page: break
                     /\ pPc' = "done"
                     /\ pResult' = Returned(pAll)
                     /\ UNCHANGED <<pCursor, pAll>>
                ELSE /\ pAll' = Extend(pAll, page)
                     /\ IF next = NoCursor
                        THEN /\ pPc' = "done"
                             /\ pResult' = Returned(Extend(pAll, page))
                             /\ UNCHANGED pCursor
                        ELSE /\ pPc' = "loop"
                             /\ pCursor' = next
                             /\ UNCHANGED pResult
    /\ UNCHANGED <<pKind, pRequests>>
    /\ UNCHANGED <<hierVars, budVars, moreVars>>

NextPaginate ==
    \/ SendPageRequest
    \/ ReceiveTransportFailure
    \/ ReceiveHttpFailure
    \/ ReceiveBody

SpecPaginate == InitPaginate /\ [][NextPaginate]_vars


(***************************************************************************)
(* Properties of a pagination run.                                         *)
(***************************************************************************)
RECURSIVE ConcatPages(_)
ConcatPages(resps) ==
    IF resps = <<>> THEN <<>>
    ELSE Head(resps).recs \o ConcatPages(Tail(resps))

\* An answer that is a successful page: HTTP 200, no errors reported, a
\* list under data.
CleanPage(r) ==
    /\ r.status = "ok"
    /\ r.errors \in {"absent", "empty"}
    /\ r.data = "obj"
    /\ r.coll = "list"

FullWithCursor(page) ==
    /\ Len(page) = BatchSize
    /\ Last(page).cursor # NoCursor

\* The upstream has answered every request, with successful pages, all full
\* and with a cursor on the last record except the last one, which is short.
WellPagedAnswer ==
    /\ pResps # <<>>
    /\ Len(pResps) = Len(pRequests)
    /\ \A k \in 1..Len(pResps) : CleanPage(pResps[k])
    /\ \A k \in 1..(Len(pResps) - 1) : FullWithCursor(pResps[k].recs)
    /\ Len(Last(pResps).recs) < BatchSize

\* C1: when the upstream answers a paginator with full pages that carry a
\* cursor on their last record, followed by a short page, the loop has ended
\* and has returned exactly the concatenation of the pages in arrival order.
C1_PaginationReturnsConcatenation ==
    WellPagedAnswer =>
        /\ pPc = "done"
        /\ pResult = Returned(ConcatPages(pResps))

\* A finished run of two or more pages, the last one short and not empty.
C1_Witness ==
    /\ WellPagedAnswer
    /\ Len(pResps) >= 2
    /\ Last(pResps).recs # <<>>
    /\ pPc = "done"
    /\ Len(pResult.rows) > BatchSize

\* A page after which the run must stop: short, or no cursor on its last
\* record.
StoppingPage(page) ==
    \/ Len(page) < BatchSize
    \/ Last(page).cursor = NoCursor

\* C2: the first request carries a null cursor; every later request carries
\* the cursor of the last record of the page received just before it; and
\* after a short page, or a page whose last record has no cursor, no further
\* request is issued.
C2_CursorProtocol ==
    /\ pRequests # <<>> => pRequests[1].after = NoCursor
    /\ \A k \in 1..Len(pResps) :
         StoppingPage(Collection(pResps[k])) =>
            /\ Len(pRequests) = k
            /\ pPc \in {"done", "error"}
    /\ \A k \in 2..Len(pRequests) :
         /\ Collection(pResps[k - 1]) # <<>>
         /\ pRequests[k].after = Last(Collection(pResps[k - 1])).cursor

\* A run that sent a second request and then stopped on a full page whose
\* last record has no cursor.
C2_Witness ==
    /\ Len(pRequests) >= 2
    /\ Len(pResps) = Len(pRequests)
    /\ pRequests[2].after # NoCursor
    /\ Len(Collection(Last(pResps))) = BatchSize
    /\ Last(Collection(Last(pResps))).cursor = NoCursor
    /\ pPc = "done"

FailedFetch(r) == r.status \in {"transport", "http"}

\* C3: once a page fetch failed with a transport error, a timeout or a
\* non-success HTTP status, the run has ended with an error and hands no
\* rows to its caller.
C3_FailedFetchAborts ==
    \A k \in 1..Len(pResps) :
        FailedFetch(pResps[k]) =>
            /\ pPc = "error"
            /\ pResult = Raised

\* A later page fails after records were accumulated.
C3_Witness ==
    /\ Len(pResps) >= 2
    /\ FailedFetch(Last(pResps))
    /\ pAll # <<>>
    /\ pPc = "error"

\* C4: in every paginator, an HTTP 200 answer that reports GraphQL errors
\* aborts the run with an error: the run neither goes on nor returns rows.
C4_GraphQLErrorsAbort ==
    \A k \in 1..Len(pResps) :
        (pResps[k].status = "ok" /\ pResps[k].errors = "nonempty") =>
            /\ pPc = "error"
            /\ pResult = Raised


(***************************************************************************)
(* BudgetService: _fetch_all_with_cursor, the three dataset fetches over   *)
(* chunks of project ids, and fetch_all_budgets.                           *)
(*                                                                         *)
(* The upstream holds bUpProjects projects (ids 1..bUpProjects) and, in    *)
(* each dataset, bUpRecs records per project.  It answers a request from   *)
(* what the request carries: the filter and the cursor.                    *)
(***************************************************************************)
Datasets == {"budgetHours", "budgetCosts", "progressBudgets"}

Min(a, b) == IF a < b THEN a ELSE b

RECURSIVE Flatten(_)
Flatten(lists) ==
    IF lists = <<>> THEN <<>> ELSE Head(lists) \o Flatten(Tail(lists))

\* The records of one project in a dataset.  The first record of a project
\* carries no costCodeId, the later ones do.
ProjectRecords(key, p, perId) ==
    [n \in 1..perId |->
        [dataset |-> key, projectId |-> p, cursor |-> <<p, n>>,
         costCodeId |-> IF n = 1 THEN <<>> ELSE <<n>>]]

\* Everything the upstream holds for a query: the projects, or the records
\* of the dataset whose projectId the filter contains, in the sort order.
UpstreamRecords(key, filter, projects, perId) ==
    IF key = "projects"
    THEN [p \in 1..projects |-> [id |-> p, cursor |-> <<p>>]]
    ELSE Flatten([k \in 1..Len(filter) |-> ProjectRecords(key, filter[k], perId)])

\* The page that follows the cursor, of at most `first` records.
UpstreamPage(key, variables, projects, perId) ==
    LET held == UpstreamRecords(key, variables.filter, projects, perId)
        at   == { k \in 1..Len(held) : held[k].cursor = variables.after }
        from == IF at = {} THEN 0 ELSE CHOOSE k \in at : TRUE
    IN  SubSeq(held, from + 1, Min(from + variables.first, Len(held)))

\* chunks = [project_ids[i:i + 50] for i in range(0, len(project_ids), 50)]
ChunkStarts(n) == { i \in 0..(n - 1) : i % ChunkSize = 0 }

SliceShort(project_ids, i) ==
    SubSeq(project_ids, i + 1, Min(i + ChunkSize - 1, Len(project_ids)))

Slice(project_ids, i) ==
    SubSeq(project_ids, i + 1, Min(i + ChunkSize, Len(project_ids)))

Chunks(project_ids) ==
    [c \in 1..Cardinality(ChunkStarts(Len(project_ids))) |->
        Slice(project_ids, (c - 1) * ChunkSize)]

\* A coroutine of _fetch_all_with_cursor at its start: its own query dict
\* (with its variables), its own semaphore, cursor = None, all_data = [].
NewRun(filter) ==
    [pc |-> "loop",
     variables |-> [filter |-> filter, first |-> BatchSize, after |-> NoCursor],
     cursor |-> NoCursor,
     all_data |-> <<>>,
     semaphore |-> max_concurrent,
     sent |-> <<>>]

\* The tasks one dataset fetch hands to asyncio.gather: one per chunk.
DatasetRuns(key, project_ids) ==
    [r \in {key} \X (1..Len(Chunks(project_ids))) |->
        NewRun(Chunks(project_ids)[r[2]])]

RunsOf(key) == { r \in DOMAIN bRuns : r[1] = key }

\* asyncio.gather(*tasks) has a result once every task returned ...
AllReturnedOrFailed(rs) == \A r \in rs : bRuns[r].pc \in {"done", "error"}

AllReturned(rs) == \A r \in rs : bRuns[r].pc = "done"

\* ... and raises as soon as one of them raised.
SomeRaised(rs) == \E r \in rs : bRuns[r].pc = "error"

\* [item for sublist in results for item in sublist]: gather keeps the
\* order of the tasks.  A task that did not return contributes nothing.
DatasetResult(key) ==
    Flatten([c \in 1..Cardinality(RunsOf(key)) |-> bRuns[<<key, c>>].all_data])

InitBudgetDataset ==
    /\ bEntry \in Datasets
    /\ bUpProjects = 0
    /\ bUpRecs \in 0..MaxRecsPerId
    /\ \E n \in 0..MaxIds : bIds = [k \in 1..n |-> k]
    /\ bRuns = DatasetRuns(bEntry, bIds)
    /\ bCC = "none"
    /\ bCall = "gather"
    /\ bResult = NotReturned

InitBudgetAll ==
    /\ bEntry = "all"
    /\ bUpProjects \in 0..MaxBudgetProjects
    /\ bUpRecs \in 0..MaxRecsPerId
    /\ bIds = <<>>
    /\ bRuns = [r \in {<<"projects", 1>>} |-> NewRun(<<>>)]
    /\ bCC = "none"
    /\ bCall = "projects"
    /\ bResult = NotReturned

InitBudget ==
    /\ MoreIdle
    /\ InitBudgetDataset \/ InitBudgetAll
    /\ CombineIdle
    /\ pKind = "none"
    /\ pPc = "idle"
    /\ pCursor = NoCursor
    /\ pAll = <<>>
    /\ pRequests = <<>>
    /\ pResps = <<>>
    /\ pServed = 0
    /\ pResult = NotReturned
    /\ hForest = NoForest
    /\ hView = FALSE
    /\ hPc = "idle"
    /\ hRows = <<>>
    /\ BatchesIdle

\* fetch_batch up to the post: take the run's semaphore, write the cursor
\* into the variables of the run's query (current_query = {**query} copies
\* the outer dict only), send them.
PostedBeforeWrite(run, cursor) ==
    LET variables == [run.variables EXCEPT !.after = cursor]
    IN  [run EXCEPT !.pc = "await",
                    !.semaphore = @ - 1,
                    !.variables = variables,
                    !.sent = Append(@, run.variables)]

Posted(run, cursor) ==
    LET variables == [run.variables EXCEPT !.after = cursor]
    IN  [run EXCEPT !.pc = "await",
                    !.semaphore = @ - 1,
                    !.variables = variables,
                    !.sent = Append(@, variables)]

\* The task starts and runs up to its first suspension, the first post.
RunStart(r) ==
    /\ bRuns[r].pc = "loop"
    /\ bRuns[r].semaphore > 0
    /\ bRuns' = [bRuns EXCEPT ![r] = Posted(@, @.cursor)]
    /\ UNCHANGED <<bEntry, bUpProjects, bUpRecs, bIds, bCC, bCall, bResult>>
    /\ UNCHANGED <<pagVars, hierVars, combVars, moreVars>>

\* The answers _execute_query raises on: a transport failure, a non-success
\* status, GraphQL errors, a null data.
FailingAnswers(page) ==
    { resp \in { TransportFailure, HttpFailure,
                 Response("ok", "nonempty", [data |-> "obj", coll |-> "list", recs |-> page]),
                 Response("ok", "absent", [data |-> "null", coll |-> "absent", recs |-> <<>>]) } :
        FailedFetch(resp) \/ BodyRaisesBudget(resp) }

\* The exception leaves fetch_batch (releasing the semaphore) and the run.
RunFetchFails(r) ==
    /\ bRuns[r].pc = "await"
    /\ Cardinality({ q \in DOMAIN bRuns : bRuns[q].pc = "error" }) < MaxFailures
    /\ FailingAnswers(UpstreamPage(r[1], Last(bRuns[r].sent), bUpProjects, bUpRecs)) # {}
    /\ bRuns' = [bRuns EXCEPT ![r].pc = "error", ![r].semaphore = @ + 1]
    /\ UNCHANGED <<bEntry, bUpProjects, bUpRecs, bIds, bCC, bCall, bResult>>
    /\ UNCHANGED <<pagVars, hierVars, combVars, moreVars>>

\* A page arrives: fetch_batch releases the semaphore and returns, the loop
\* extends all_data and either ends or posts the next request; nothing
\* suspends the coroutine between the two.
RunReceivePage(r) ==
    /\ bRuns[r].pc = "await"
    /\ LET page == UpstreamPage(r[1], Last(bRuns[r].sent), bUpProjects, bUpRecs)
           resp == Response("ok", "absent", [data |-> "obj", coll |-> "list", recs |-> page])
           data == Collection(resp)
           next == NextCursor("budget", data)
           released == [bRuns[r] EXCEPT !.semaphore = @ + 1]
       IN  /\ ~BodyRaisesBudget(resp)
           /\ bRuns' =
                IF data = <<>>
                THEN \* return [], None; if not batch_data: break
                     [bRuns EXCEPT ![r] = [released EXCEPT !.pc = "done",
                                                          !.cursor = NoCursor]]
                ELSE IF next = NoCursor
                THEN \* if not cursor: break
                     [bRuns EXCEPT ![r] = [released EXCEPT !.pc = "done",
                                                          !.cursor = NoCursor,
                                                          !.all_data = Extend(@, data)]]
                ELSE [bRuns EXCEPT ![r] =
                        Posted([released EXCEPT !.cursor = next,
                                                !.all_data = Extend(@, data)], next)]
    /\ UNCHANGED <<bEntry, bUpProjects, bUpRecs, bIds, bCC, bCall, bResult>>
    /\ UNCHANGED <<pagVars, hierVars, combVars, moreVars>>

\* The await of a gather (or of the project fetch) raises in the entry
\* point; the tasks still running are left to run.
CallRaises ==
    /\ bCall \in {"projects", "gather"}
    /\ SomeRaised(DOMAIN bRuns)
    /\ bCall' = "error"
    /\ bResult' = Raised
    /\ UNCHANGED <<bEntry, bUpProjects, bUpRecs, bIds, bRuns, bCC>>
    /\ UNCHANGED <<pagVars, hierVars, combVars, moreVars>>

\* _fetch_all_budget_hours (_costs, _progress_budgets) returns.
DatasetFetchReturns ==
    /\ bEntry \in Datasets
    /\ bCall = "gather"
    /\ AllReturned(DOMAIN bRuns)
    /\ bResult' = Returned(DatasetResult(bEntry))
    /\ bCall' = "done"
    /\ UNCHANGED <<bEntry, bUpProjects, bUpRecs, bIds, bRuns, bCC>>
    /\ UNCHANGED <<pagVars, hierVars, combVars, moreVars>>

\* fetch_all_budgets after _fetch_budget_projects: no project, return [];
\* otherwise start the three dataset fetches.
ProjectsReturn ==
    /\ bEntry = "all"
    /\ bCall = "projects"
    /\ bRuns[<<"projects", 1>>].pc = "done"
    /\ LET projects_data == bRuns[<<"projects", 1>>].all_data
           project_ids == [k \in 1..Len(projects_data) |-> projects_data[k].id]
       IN  IF projects_data = <<>>
           THEN /\ bCall' = "done"
                /\ bResult' = Returned(<<>>)
                /\ UNCHANGED <<bIds, bRuns>>
           ELSE /\ bCall' = "gather"
                /\ bIds' = project_ids
                /\ bRuns' = [r \in DOMAIN bRuns \cup (Datasets \X (1..Len(Chunks(project_ids)))) |->
                               IF r \in DOMAIN bRuns THEN bRuns[r]
                               ELSE DatasetRuns(r[1], project_ids)[r]]
                /\ UNCHANGED bResult
    /\ UNCHANGED <<bEntry, bUpProjects, bUpRecs, bCC>>
    /\ UNCHANGED <<pagVars, hierVars, combVars, moreVars>>

\* What fetch_all_budgets hands to _combine_hierarchical_data.
CombineInputs(cost_codes) ==
    [projects |-> bIds,
     hours |-> DatasetResult("budgetHours"),
     costs |-> DatasetResult("budgetCosts"),
     progress |-> DatasetResult("progressBudgets"),
     cost_codes |-> cost_codes]

\* {pb.get('costCodeId') for pb in progress if pb.get('costCodeId')}
CostCodeIds(progress) ==
    { progress[k].costCodeId : k \in { j \in 1..Len(progress) : progress[j].costCodeId # <<>> } }

\* The three dataset fetches returned: fetch the cost codes, if any is named.
GatherReturns ==
    /\ bEntry = "all"
    /\ bCall = "gather"
    /\ AllReturned(DOMAIN bRuns)
    /\ IF CostCodeIds(DatasetResult("progressBudgets")) = {}
       THEN /\ bCall' = "done"
            /\ bResult' = Returned(CombineInputs({}))
            /\ UNCHANGED bCC
       ELSE /\ bCall' = "costcodes"
            /\ bCC' = "await"
            /\ UNCHANGED bResult
    /\ UNCHANGED <<bEntry, bUpProjects, bUpRecs, bIds, bRuns>>
    /\ UNCHANGED <<pagVars, hierVars, combVars, moreVars>>

\* _execute_query for the cost codes raises.
CostCodesFail ==
    /\ bCall = "costcodes"
    /\ bCC = "await"
    /\ bCC' = "failed"
    /\ bCall' = "error"
    /\ bResult' = Raised
    /\ UNCHANGED <<bEntry, bUpProjects, bUpRecs, bIds, bRuns>>
    /\ UNCHANGED <<pagVars, hierVars, combVars, moreVars>>

CostCodesReturn ==
    /\ bCall = "costcodes"
    /\ bCC = "await"
    /\ bCC' = "ok"
    /\ bCall' = "done"
    /\ bResult' = Returned(CombineInputs(CostCodeIds(DatasetResult("progressBudgets"))))
    /\ UNCHANGED <<bEntry, bUpProjects, bUpRecs, bIds, bRuns>>
    /\ UNCHANGED <<pagVars, hierVars, combVars, moreVars>>

NextBudget ==
    \/ \E r \in DOMAIN bRuns : RunStart(r)
    \/ \E r \in DOMAIN bRuns : RunFetchFails(r)
    \/ \E r \in DOMAIN bRuns : RunReceivePage(r)
    \/ CallRaises
    \/ DatasetFetchReturns
    \/ ProjectsReturn
    \/ GatherReturns
    \/ CostCodesFail
    \/ CostCodesReturn

SpecBudget == InitBudget /\ [][NextBudget]_vars


(***************************************************************************)
(* Properties of the budget fetches.                                       *)
(***************************************************************************)
\* The chunk fetches of a dataset whose request is with the upstream.
InFlight(key) == { r \in RunsOf(key) : bRuns[r].pc = "await" }

\* C5: while a dataset is fetched, at most max_concurrent of its chunk
\* fetches are in flight at any moment.
C5_AtMostMaxConcurrentInFlight ==
    \A key \in Datasets : Cardinality(InFlight(key)) <= max_concurrent

\* The datasets whose fetch has been started.
StartedDatasets ==
    IF bEntry \in Datasets THEN {bEntry}
    ELSE IF bEntry = "all" /\ bIds # <<>> THEN Datasets
    ELSE {}

ChunkFilters(key) ==
    [c \in 1..Cardinality(RunsOf(key)) |-> bRuns[<<key, c>>].variables.filter]

\* What the pagination runs of the chunks return when each is run alone,
\* put together in chunk order: everything the upstream holds for the ids.
StandaloneResults(key) ==
    Flatten([c \in 1..Len(ChunkFilters(key)) |->
                UpstreamRecords(key, ChunkFilters(key)[c], bUpProjects, bUpRecs)])

CeilDiv(n, d) == (n + d - 1) \div d

\* C6: a dataset fetch over N ids starts ceil(N / ChunkSize) pagination
\* runs, whose filters are contiguous pieces of the id list of at most
\* ChunkSize ids that hold every id once; and in every interleaving of the
\* runs what it returns is what the runs return when run alone.
C6_ChunkCompleteness ==
    \A key \in StartedDatasets :
        /\ RunsOf(key) = {key} \X (1..CeilDiv(Len(bIds), ChunkSize))
        /\ Flatten(ChunkFilters(key)) = bIds
        /\ \A c \in 1..Len(ChunkFilters(key)) :
             Len(ChunkFilters(key)[c]) \in 1..ChunkSize
        /\ (bEntry = key /\ bCall = "done") =>
             bResult = Returned(StandaloneResults(key))
        /\ (bEntry = "all" /\ bCall = "done") =>
             /\ key = "budgetHours" => bResult.rows.hours = StandaloneResults(key)
             /\ key = "budgetCosts" => bResult.rows.costs = StandaloneResults(key)
             /\ key = "progressBudgets" => bResult.rows.progress = StandaloneResults(key)

\* A dataset fetch over three or more chunks, the last one not full, has
\* returned; its runs took several pages each.
C6_Witness ==
    /\ bEntry \in Datasets
    /\ bCall = "done"
    /\ Cardinality(RunsOf(bEntry)) >= 3
    /\ Len(bIds) % ChunkSize # 0
    /\ \A r \in RunsOf(bEntry) : Len(bRuns[r].sent) >= 2
    /\ Len(bResult.rows) = Len(bIds) * bUpRecs
    /\ bUpRecs >= 1

\* Some page fetch of the call failed.
AnyFetchFailed == SomeRaised(DOMAIN bRuns) \/ bCC = "failed"

\* C7: once a page fetch of fetch_all_budgets failed (of the projects, of a
\* chunk of a dataset, or of the cost codes), the call never returns rows:
\* it has ended with an error, or the error is about to reach it.
C7_AllOrNothing ==
    (bEntry = "all" /\ AnyFetchFailed) =>
        /\ bCall # "done"
        /\ bResult.ok = FALSE
        /\ \/ bCall = "error" /\ bResult = Raised
           \/ ENABLED CallRaises

\* fetch_all_budgets ended with an error after a chunk of one dataset
\* failed, although a chunk of a dataset had returned its records.
C7_Witness ==
    /\ bEntry = "all"
    /\ bCall = "error"
    /\ bResult = Raised
    /\ \E r \in DOMAIN bRuns : r[1] \in Datasets /\ bRuns[r].pc = "error"
    /\ \E r \in DOMAIN bRuns :
         r[1] \in Datasets /\ bRuns[r].pc = "done" /\ bRuns[r].all_data # <<>>


(***************************************************************************)
(* ProjectService.prepare_hierarchy.                                       *)
(*                                                                         *)
(* The nested project dicts are held flat: node i has parent[i] (0 for a   *)
(* root, otherwise a node before it), title[i] and archivedOn[i]; the      *)
(* children list of a node is its children in index order, and the id of   *)
(* node i is i.  A title is the sequence of its code points.  Of a row     *)
(* only id, project_names and status are kept: the other fields are        *)
(* copies of the node's own fields.                                        *)
(***************************************************************************)
Space == 32

\* " A " and "B"
Titles == { <<32, 65, 32>>, <<66>> }

NoTimestamp == "None"
ArchivedOnValues == { NoTimestamp, "2024-01-01T00:00:00Z" }

\* What stands where a project dict is expected: a dict with its fields, an
\* empty dict, None, or a value that is no mapping (a string).
Shapes == {"dict", "empty", "none", "str"}

AllDicts(n) == [i \in 1..n |-> "dict"]

\* `not project`
Falsy(shape) == shape \in {"empty", "none"}

\* A value without .get
NoMapping(shape) == shape \in {"none", "str"}

ParentArrays(n) == { p \in [1..n -> 0..(n - 1)] : \A i \in 1..n : p[i] < i }

\* Every shape of at most MaxNodes nodes.
SmallForests ==
    UNION { { [parent |-> p, title |-> t, archivedOn |-> a, shape |-> AllDicts(n)] :
                p \in ParentArrays(n),
                t \in [1..n -> Titles],
                a \in [1..n -> ArchivedOnValues] } : n \in 1..MaxNodes }

\* The deepest trees the projects query asks for: a root and six levels of
\* children below it.  Titles alternate down the chain.
ChainTitles(n) ==
    { [i \in 1..n |-> IF i % 2 = k THEN <<32, 65, 32>> ELSE <<66>>] : k \in 0..1 }

DeepChains ==
    UNION { { [parent |-> [i \in 1..n |-> i - 1], title |-> t, archivedOn |-> a,
               shape |-> AllDicts(n)] :
                t \in ChainTitles(n),
                a \in [1..n -> ArchivedOnValues] } : n \in (MaxNodes + 1)..PathLen }

Forests == SmallForests \cup DeepChains

Nodes(f) == 1..Len(f.parent)
Roots(f) == { i \in Nodes(f) : f.parent[i] = 0 }

\* The members of a set of nodes as a sequence in index order.
RECURSIVE InIndexOrder(_)
InIndexOrder(S) ==
    IF S = {} THEN <<>>
    ELSE LET m == CHOOSE x \in S : \A y \in S : x <= y
         IN  <<m>> \o InIndexOrder(S \ {m})

\* str.strip()
RECURSIVE LStrip(_)
LStrip(t) ==
    IF t # <<>> /\ Head(t) = Space THEN LStrip(Tail(t)) ELSE t

RECURSIVE RStrip(_)
RStrip(t) ==
    IF t # <<>> /\ Last(t) = Space THEN RStrip(SubSeq(t, 1, Len(t) - 1)) ELSE t

Strip(t) == RStrip(LStrip(t))

\* name.strip() if name else ''
CleanNameUnstripped(name) == name

CleanName(name) == IF name = <<>> THEN <<>> ELSE Strip(name)

\* a < b on str: by code point, a proper prefix first.
RECURSIVE StrLess(_, _)
StrLess(a, b) ==
    IF b = <<>> THEN FALSE
    ELSE IF a = <<>> THEN TRUE
    ELSE IF Head(a) # Head(b) THEN Head(a) < Head(b)
    ELSE StrLess(Tail(a), Tail(b))

\* sorted(children, key=title): stable, an element goes before the first
\* one whose title is greater.
RECURSIVE InsertByTitle(_, _, _)
InsertByTitle(f, sorted, j) ==
    IF sorted = <<>> THEN <<j>>
    ELSE IF StrLess(f.title[j], f.title[Head(sorted)])
         THEN <<j>> \o sorted
         ELSE <<Head(sorted)>> \o InsertByTitle(f, Tail(sorted), j)

RECURSIVE SortedByTitleFrom(_, _, _)
SortedByTitleFrom(f, sorted, rest) ==
    IF rest = <<>> THEN sorted
    ELSE SortedByTitleFrom(f, InsertByTitle(f, sorted, Head(rest)), Tail(rest))

SortedByTitle(f, children) == SortedByTitleFrom(f, <<>>, children)

\* The test filter_children makes of a child.
KeepsChildAlways(is_archived, archivedOn) == TRUE

KeepsChild(is_archived, archivedOn) ==
    IF is_archived THEN archivedOn # NoTimestamp ELSE archivedOn = NoTimestamp

ChildrenIn(f, i, present) == { j \in present : f.parent[j] = i }

RECURSIVE Descendants(_, _)
Descendants(f, i) ==
    LET kids == { j \in Nodes(f) : f.parent[j] = i }
    IN  kids \cup UNION { Descendants(f, j) : j \in kids }

\* The nodes filter_children leaves below node i: the children it keeps,
\* each filtered in turn.
RECURSIVE KeptBelow(_, _, _, _)
KeptBelow(f, is_archived, i, present) ==
    LET kept == { j \in ChildrenIn(f, i, present) :
                    KeepsChild(is_archived, f.archivedOn[j]) }
    IN  kept \cup UNION { KeptBelow(f, is_archived, j, present) : j \in kept }

\* filter_children(project): the nodes present afterwards.
filter_children(f, is_archived, i, present) ==
    (present \ Descendants(f, i)) \cup KeptBelow(f, is_archived, i, present)

\* The status format_project_data writes.
RowStatus(is_archived, archivedOn) ==
    IF is_archived THEN "Archived" ELSE "Active"

\* cleaned_names, padded to seven and cut to seven.
format_project_data(f, is_archived, i, project_names) ==
    LET cleaned == [k \in 1..Len(project_names) |-> CleanName(project_names[k])]
        padded  == cleaned \o [k \in 1..(PathLen - Len(cleaned)) |-> <<>>]
    IN  [id |-> i,
         project_names |-> SubSeq(padded, 1, PathLen),
         status |-> RowStatus(is_archived, f.archivedOn[i])]

\* current_names[depth] = title: depth counts from 0.
SetName(project_names, depth, title) ==
    [project_names EXCEPT ![depth + 1] = title]

RECURSIVE process_hierarchy(_, _, _, _, _, _)
RECURSIVE process_children(_, _, _, _, _, _)
process_hierarchy(f, is_archived, i, depth, project_names, present) ==
    IF Falsy(f.shape[i]) THEN <<>>  \* if not project: return result
    ELSE
    LET current_names == SetName(project_names, depth, f.title[i])
        row      == format_project_data(f, is_archived, i, current_names)
        filtered == filter_children(f, is_archived, i, present)
        children == SortedByTitle(f, InIndexOrder(ChildrenIn(f, i, filtered)))
    IN  <<row>> \o
        process_children(f, is_archived, children, depth + 1, current_names, filtered)

process_children(f, is_archived, children, depth, project_names, present) ==
    IF children = <<>> THEN <<>>
    ELSE process_hierarchy(f, is_archived, Head(children), depth, project_names, present)
         \o process_children(f, is_archived, Tail(children), depth, project_names, present)

RECURSIVE process_roots(_, _, _)
process_roots(f, is_archived, roots) ==
    IF roots = <<>> THEN <<>>
    ELSE process_hierarchy(f, is_archived, Head(roots), 0,
                           [k \in 1..PathLen |-> <<>>], Nodes(f))
         \o process_roots(f, is_archived, Tail(roots))

\* current_names[depth] = ... on a list of seven raises IndexError when
\* depth is 7 or more: whether process_hierarchy(node i, depth) raises, in
\* itself or in a child it recurses into.
RECURSIVE RaisesIndexError(_, _, _, _, _)
RaisesIndexError(f, is_archived, i, depth, present) ==
    /\ ~Falsy(f.shape[i])
    /\ \/ depth >= PathLen
       \/ LET filtered == filter_children(f, is_archived, i, present)
          IN  \E j \in ChildrenIn(f, i, filtered) :
                 RaisesIndexError(f, is_archived, j, depth + 1, filtered)

\* child.get('archivedOn') in filter_children raises AttributeError on a
\* child that is no mapping; the call recurses into the children it keeps.
RECURSIVE FilterRaises(_, _, _, _)
FilterRaises(f, is_archived, i, present) ==
    \E j \in ChildrenIn(f, i, present) :
        \/ NoMapping(f.shape[j])
        \/ /\ KeepsChild(is_archived, f.archivedOn[j])
           /\ FilterRaises(f, is_archived, j, present)

\* process_hierarchy on a root: None and {} return at once; project.get on
\* a value that is no mapping raises; otherwise filter_children runs over
\* everything it keeps below the root.
RaisesAttributeError(f, is_archived, r) ==
    /\ ~Falsy(f.shape[r])
    /\ \/ NoMapping(f.shape[r])
       \/ FilterRaises(f, is_archived, r, Nodes(f))

\* The try of prepare_hierarchy: an exception anywhere in the loop is logged
\* and the call returns [].
\* prepare_hierarchy on the roots `roots` of f, in that order.
prepare_hierarchy_roots(f, is_archived, roots) ==
    IF \E k \in 1..Len(roots) :
          \/ RaisesAttributeError(f, is_archived, roots[k])
          \/ RaisesIndexError(f, is_archived, roots[k], 0, Nodes(f))
    THEN <<>>
    ELSE process_roots(f, is_archived, roots)

prepare_hierarchy(f, is_archived) ==
    prepare_hierarchy_roots(f, is_archived, InIndexOrder(Roots(f)))

InitHierarchy ==
    /\ hForest \in Forests
    /\ hView \in BOOLEAN
    /\ hPc = "call"
    /\ hRows = <<>>
    /\ BatchesIdle
    /\ pKind = "none"
    /\ pPc = "idle"
    /\ pCursor = NoCursor
    /\ pAll = <<>>
    /\ pRequests = <<>>
    /\ pResps = <<>>
    /\ pServed = 0
    /\ pResult = NotReturned
    /\ BudgetIdle
    /\ MoreIdle

PrepareHierarchy ==
    /\ hPc = "call"
    /\ hRows' = prepare_hierarchy(hForest, hView)
    /\ hPc' = "returned"
    /\ UNCHANGED <<hForest, hView, batchVars>>
    /\ UNCHANGED <<pagVars, budVars, moreVars>>

NextHierarchy == PrepareHierarchy

SpecHierarchy == InitHierarchy /\ [][NextHierarchy]_vars

\* prepare_hierarchy called on nesting deeper than the projects query asks
\* for: chains of PathLen + 1 levels.
DeeperChains ==
    { [parent |-> [i \in 1..(PathLen + 1) |-> i - 1], title |-> t, archivedOn |-> a,
       shape |-> AllDicts(PathLen + 1)] :
        t \in ChainTitles(PathLen + 1),
        a \in [1..(PathLen + 1) -> ArchivedOnValues] }

InitDeepHierarchy ==
    /\ hForest \in DeeperChains
    /\ hView \in BOOLEAN
    /\ hPc = "call"
    /\ hRows = <<>>
    /\ BatchesIdle
    /\ pKind = "none"
    /\ pPc = "idle"
    /\ pCursor = NoCursor
    /\ pAll = <<>>
    /\ pRequests = <<>>
    /\ pResps = <<>>
    /\ pServed = 0
    /\ pResult = NotReturned
    /\ BudgetIdle
    /\ MoreIdle

SpecDeepHierarchy == InitDeepHierarchy /\ [][NextHierarchy]_vars

\* prepare_hierarchy called on trees in which some node is not a project
\* dict.  Such a node has no children, no archivedOn and no title of its own.
ShapedForests ==
    UNION { { f \in [parent : ParentArrays(n),
                     title : ChainTitles(n),
                     archivedOn : [1..n -> ArchivedOnValues],
                     shape : [1..n -> Shapes]] :
                /\ \E i \in 1..n : f.shape[i] # "dict"
                /\ \A i \in 1..n : f.shape[i] # "dict" =>
                     /\ f.archivedOn[i] = NoTimestamp
                     /\ \A j \in 1..n : f.parent[j] # i } : n \in 1..MaxNodes }

InitShapedHierarchy ==
    /\ hForest \in ShapedForests
    /\ hView \in BOOLEAN
    /\ hPc = "call"
    /\ hRows = <<>>
    /\ BatchesIdle
    /\ pKind = "none"
    /\ pPc = "idle"
    /\ pCursor = NoCursor
    /\ pAll = <<>>
    /\ pRequests = <<>>
    /\ pResps = <<>>
    /\ pServed = 0
    /\ pResult = NotReturned
    /\ BudgetIdle
    /\ MoreIdle

SpecShapedHierarchy == InitShapedHierarchy /\ [][NextHierarchy]_vars

(***************************************************************************)
(* ProjectService._process_projects_in_batches: the roots are cut into     *)
(* batches, one task per batch takes the semaphore of the call and runs    *)
(* _process_projects_sync on its batch in a thread; gather collects the    *)
(* results of the tasks in task order.                                     *)
(***************************************************************************)
\* _batch_generator(projects, processing_batch_size)
Batches(projects, batch_size) ==
    [b \in 1..((Len(projects) + batch_size - 1) \div batch_size) |->
        SubSeq(projects, (b - 1) * batch_size + 1,
               Min(b * batch_size, Len(projects)))]

\* prepare_hierarchy([project]); its own handler returns [] as well.
process_single_project(f, is_archived, project) ==
    prepare_hierarchy_roots(f, is_archived, <<project>>)

\* batch_results in task order, each extended onto result.
CombineFirstResultLast(batch_results) ==
    Flatten(Tail(batch_results)) \o Head(batch_results)

CombineBatchResults(batch_results) == Flatten(batch_results)

InitBatches ==
    /\ hForest \in SmallForests
    /\ hView \in BOOLEAN
    /\ hPc = "batches"
    /\ hRows = <<>>
    /\ tBatchSize \in 1..MaxBatchSize
    /\ tBatches = [b \in DOMAIN Batches(InIndexOrder(Roots(hForest)), tBatchSize) |->
                     [pc |-> "created",
                      batch |-> Batches(InIndexOrder(Roots(hForest)), tBatchSize)[b],
                      done |-> 0,
                      result |-> <<>>]]
    /\ tSem = max_concurrent_batches
    /\ tResult = NotReturned
    /\ pKind = "none"
    /\ pPc = "idle"
    /\ pCursor = NoCursor
    /\ pAll = <<>>
    /\ pRequests = <<>>
    /\ pResps = <<>>
    /\ pServed = 0
    /\ pResult = NotReturned
    /\ BudgetIdle
    /\ MoreIdle

\* _process_batch: async with semaphore.  The tasks were created in batch
\* order and asyncio serves the waiters of a semaphore first come first
\* served; then asyncio.to_thread starts the thread.
BatchEnters(b) ==
    /\ tBatches[b].pc = "created"
    /\ \A a \in 1..(b - 1) : tBatches[a].pc # "created"
    /\ tSem > 0
    /\ tSem' = tSem - 1
    /\ tBatches' = [tBatches EXCEPT ![b].pc = "thread"]
    /\ UNCHANGED <<hForest, hView, hPc, hRows, tBatchSize, tResult>>
    /\ UNCHANGED <<pagVars, budVars, moreVars>>

\* _process_projects_sync in its thread: the next project of the batch.
ThreadProcessesProject(b) ==
    /\ tBatches[b].pc = "thread"
    /\ tBatches[b].done < Len(tBatches[b].batch)
    /\ LET project == tBatches[b].batch[tBatches[b].done + 1]
           processed == process_single_project(hForest, hView, project)
       IN  tBatches' = [tBatches EXCEPT ![b].done = @ + 1,
                                        ![b].result = @ \o processed]
    /\ UNCHANGED <<hForest, hView, hPc, hRows, tBatchSize, tSem, tResult>>
    /\ UNCHANGED <<pagVars, budVars, moreVars>>

\* The thread returns; the task leaves the semaphore and returns result.
BatchReturns(b) ==
    /\ tBatches[b].pc = "thread"
    /\ tBatches[b].done = Len(tBatches[b].batch)
    /\ tSem' = tSem + 1
    /\ tBatches' = [tBatches EXCEPT ![b].pc = "done"]
    /\ UNCHANGED <<hForest, hView, hPc, hRows, tBatchSize, tResult>>
    /\ UNCHANGED <<pagVars, budVars, moreVars>>

\* batch_results = await asyncio.gather(*tasks); combine in order; return.
BatchesGathered ==
    /\ hPc = "batches"
    /\ \A b \in DOMAIN tBatches : tBatches[b].pc = "done"
    /\ tResult' = Returned(IF tBatches = <<>> THEN <<>>
                           ELSE CombineBatchResults([b \in DOMAIN tBatches |-> tBatches[b].result]))
    /\ hPc' = "returned"
    /\ UNCHANGED <<hForest, hView, hRows, tBatchSize, tBatches, tSem>>
    /\ UNCHANGED <<pagVars, budVars, moreVars>>

NextBatches ==
    \/ \E b \in DOMAIN tBatches : BatchEnters(b)
    \/ \E b \in DOMAIN tBatches : ThreadProcessesProject(b)
    \/ \E b \in DOMAIN tBatches : BatchReturns(b)
    \/ BatchesGathered

SpecBatches == InitBatches /\ [][NextBatches]_vars

(***************************************************************************)
(* Properties of prepare_hierarchy.                                        *)
(***************************************************************************)
\* The ancestors of a node from its parent up to the root.
RECURSIVE Ancestors(_, _)
Ancestors(f, i) ==
    IF f.parent[i] = 0 THEN {}
    ELSE {f.parent[i]} \cup Ancestors(f, f.parent[i])

Level(f, i) == Cardinality(Ancestors(f, i))

MatchesView(is_archived, archivedOn) ==
    (archivedOn # NoTimestamp) <=> is_archived

\* The node and its ancestors below the root all match the view.
KeptUnderView(f, is_archived, i) ==
    \A a \in ({i} \cup Ancestors(f, i)) :
        f.parent[a] # 0 => MatchesView(is_archived, f.archivedOn[a])

RowsOf(rows, i) == { k \in 1..Len(rows) : rows[k].id = i }

\* C8: a non-root node has a row (exactly one) if and only if its archived
\* marker and that of each of its ancestors below the root match the view.
C8_RowIffKeptUnderView ==
    hPc = "returned" =>
        \A i \in Nodes(hForest) \ Roots(hForest) :
            Cardinality(RowsOf(hRows, i)) =
                IF KeptUnderView(hForest, hView, i) THEN 1 ELSE 0

\* Root active, child archived, grandchild active, view Active: only the
\* root's row is returned.
C8_Witness ==
    /\ hPc = "returned"
    /\ hView = FALSE
    /\ Len(hForest.parent) = 3
    /\ hForest.parent = <<0, 1, 2>>
    /\ hForest.archivedOn[1] = NoTimestamp
    /\ hForest.archivedOn[2] # NoTimestamp
    /\ hForest.archivedOn[3] = NoTimestamp
    /\ Len(hRows) = 1
    /\ hRows[1].id = 1

\* The ancestor of node i at a level above its own (the root is at level 0).
AncestorAt(f, i, level) ==
    CHOOSE a \in Ancestors(f, i) : Level(f, a) = level

\* C9: every row has seven project_names; for a node at level d, slot d is
\* its trimmed title, the slots before it are the trimmed titles of its
\* ancestors from the root down, and the slots after it are empty.
C9_PathSlots ==
    hPc = "returned" =>
        \A k \in 1..Len(hRows) :
            LET i == hRows[k].id
                d == Level(hForest, i)
                names == hRows[k].project_names
            IN  /\ Len(names) = PathLen
                /\ names[d + 1] = Strip(hForest.title[i])
                /\ \A l \in 0..(d - 1) :
                     names[l + 1] = Strip(hForest.title[AncestorAt(hForest, i, l)])
                /\ \A l \in (d + 1)..(PathLen - 1) : names[l + 1] = <<>>

\* A row of a node at level 2 whose own title and whose parent's title carry
\* spaces around them.
C9_Witness ==
    /\ hPc = "returned"
    /\ \E k \in 1..Len(hRows) :
         LET i == hRows[k].id
         IN  /\ Level(hForest, i) = 2
             /\ hForest.title[i] # Strip(hForest.title[i])
             /\ hForest.title[hForest.parent[i]] # Strip(hForest.title[hForest.parent[i]])
             /\ hRows[k].project_names[3] = <<65>>

OwnStatus(archivedOn) ==
    IF archivedOn # NoTimestamp THEN "Archived" ELSE "Active"

\* C10: every root has a row, whatever its archived marker and the view,
\* and the status of every row is that of the node's own archived marker.
C10_RootRowsAndOwnStatus ==
    hPc = "returned" =>
        /\ \A i \in Roots(hForest) : RowsOf(hRows, i) # {}
        /\ \A k \in 1..Len(hRows) :
             hRows[k].status = OwnStatus(hForest.archivedOn[hRows[k].id])

\* C11: a tree whose kept nodes reach more than seven levels still yields
\* the rows of its nodes at the first seven levels, each with seven slots.
C11_DeepTreeKeepsShallowRows ==
    (hPc = "returned" /\ \E i \in Nodes(hForest) :
                            Level(hForest, i) >= PathLen /\ KeptUnderView(hForest, hView, i)) =>
        \A i \in Nodes(hForest) :
            (Level(hForest, i) < PathLen /\ KeptUnderView(hForest, hView, i)) =>
                \E k \in 1..Len(hRows) :
                    hRows[k].id = i /\ Len(hRows[k].project_names) = PathLen

(***************************************************************************)
(* BudgetService._combine_hierarchical_data.                               *)
(*                                                                         *)
(* A record is held with the fields the code reads.  An id of NoId is a    *)
(* costCodeId that is null or absent; a number of NullNum is a null.  A    *)
(* string is the sequence of its code points.  project_info is held as the *)
(* sequence of its items in insertion order.  labor_hours is a whole       *)
(* number: the budgetSeconds of the model are multiples of 3600.           *)
(***************************************************************************)
NoId == 0
NullNum == -1

\* x or 0
OrZero(x) == IF x = NullNum THEN 0 ELSE x

\* The truth value of a number or None.
Truthy(x) == x # NullNum /\ x # 0

\* budgetSeconds / 3600
Hours(budgetSeconds) == budgetSeconds \div 3600

RECURSIVE SumOf(_)
SumOf(numbers) ==
    IF numbers = <<>> THEN 0 ELSE Head(numbers) + SumOf(Tail(numbers))

\* str.lower()
Lower(str) ==
    [k \in 1..Len(str) |-> IF str[k] \in 65..90 THEN str[k] + 32 ELSE str[k]]

\* str.split(' / ')
RECURSIVE SplitFrom(_, _)
SplitFrom(str, part) ==
    IF str = <<>> THEN <<part>>
    ELSE IF Len(str) >= 3 /\ SubSeq(str, 1, 3) = <<32, 47, 32>>
    THEN <<part>> \o SplitFrom(SubSeq(str, 4, Len(str)), <<>>)
    ELSE SplitFrom(Tail(str), Append(part, Head(str)))

Split(str) == SplitFrom(str, <<>>)

\* sort_key(item)
sort_key(item) ==
    LET parts == Split(item.project_title)
    IN  [k \in 1..Len(parts) |-> Lower(parts[k])] \o <<Lower(item.cost_code_title)>>

\* a < b on tuples of str
RECURSIVE TupleLess(_, _)
TupleLess(a, b) ==
    IF b = <<>> THEN FALSE
    ELSE IF a = <<>> THEN TRUE
    ELSE IF Head(a) # Head(b) THEN StrLess(Head(a), Head(b))
    ELSE TupleLess(Tail(a), Tail(b))

\* sorted(combined_data, key=sort_key): stable.
RECURSIVE InsertByKey(_, _)
InsertByKey(sorted, item) ==
    IF sorted = <<>> THEN <<item>>
    ELSE IF TupleLess(sort_key(item), sort_key(Head(sorted)))
         THEN <<item>> \o sorted
         ELSE <<Head(sorted)>> \o InsertByKey(Tail(sorted), item)

RECURSIVE SortedByKeyFrom(_, _)
SortedByKeyFrom(sorted, rest) ==
    IF rest = <<>> THEN sorted
    ELSE SortedByKeyFrom(InsertByKey(sorted, Head(rest)), Tail(rest))

SortedByKey(combined_data) == SortedByKeyFrom(<<>>, combined_data)

\* cost_code_map = {cc['id']: cc for cc in cost_codes}: the last record of
\* an id is the one kept.
InCostCodeMap(cost_codes, cc_id) ==
    \E k \in 1..Len(cost_codes) : cost_codes[k].id = cc_id

CostCodeOf(cost_codes, cc_id) ==
    LET ks == { k \in 1..Len(cost_codes) : cost_codes[k].id = cc_id }
    IN  cost_codes[CHOOSE k \in ks : \A j \in ks : j <= k]

\* f"{costCode} {title}".strip()
CostCodeTitle(cost_code) == Strip(cost_code.costCode \o <<Space>> \o cost_code.title)

\* The record a project-level sum takes: of the project, without costCodeId.
ProjectLevel(record, proj_id) ==
    record.projectId = proj_id /\ record.costCodeId = NoId

\* next((r for r in records if projectId == proj_id and costCodeId == cc_id), {})
\* as a sequence of at most one record.
FirstFor(records, proj_id, cc_id) ==
    LET Test(r) == r.projectId = proj_id /\ r.costCodeId = cc_id
        found == SelectSeq(records, Test)
    IN  IF found = <<>> THEN <<>> ELSE <<Head(found)>>

project_hours(hours, proj_id) ==
    LET Test(h) == ProjectLevel(h, proj_id)
        mine == SelectSeq(hours, Test)
    IN  SumOf([k \in 1..Len(mine) |-> Hours(mine[k].budgetSeconds)])

project_costs(costs, proj_id) ==
    LET Test(c) == ProjectLevel(c, proj_id)
        mine == SelectSeq(costs, Test)
    IN  SumOf([k \in 1..Len(mine) |-> OrZero(mine[k].costBudget)])

StatusOf(proj_data) ==
    IF proj_data.archivedOn # NoTimestamp THEN "Archived" ELSE "Active"

ProjectRow(in, proj_data) ==
    [id |-> 0,
     project_id |-> proj_data.id,
     project_title |-> proj_data.title,
     cost_code_id |-> NoId,
     cost_code_title |-> <<>>,
     labor_hours |-> project_hours(in.hours, proj_data.id),
     labor_cost |-> project_costs(in.costs, proj_data.id),
     progress_value |-> 0,
     quantity |-> 0,
     status |-> StatusOf(proj_data)]

\* The set of cost codes with a progress value or quantity.
project_cost_codes(progress, proj_id) ==
    { progress[k].costCodeId :
        k \in { j \in 1..Len(progress) :
                  /\ progress[j].projectId = proj_id
                  /\ progress[j].costCodeId # NoId
                  /\ Truthy(progress[j].value) \/ Truthy(progress[j].quantity) } }

CostCodeRow(in, proj_data, cc_id) ==
    LET cc_progress == Head(FirstFor(in.progress, proj_data.id, cc_id))
        cc_hours == FirstFor(in.hours, proj_data.id, cc_id)
        cc_costs == FirstFor(in.costs, proj_data.id, cc_id)
    IN  [id |-> cc_progress.id,
         project_id |-> proj_data.id,
         project_title |-> proj_data.title,
         cost_code_id |-> cc_id,
         cost_code_title |-> CostCodeTitle(CostCodeOf(in.cost_codes, cc_id)),
         labor_hours |-> IF cc_hours = <<>> \/ Head(cc_hours).budgetSeconds = NullNum
                         THEN 0 ELSE Hours(Head(cc_hours).budgetSeconds),
         labor_cost |-> IF cc_costs = <<>> THEN 0 ELSE OrZero(Head(cc_costs).costBudget),
         progress_value |-> OrZero(cc_progress.value),
         quantity |-> OrZero(cc_progress.quantity),
         status |-> StatusOf(proj_data)]

\* A row for each qualifying progress record instead of each cost code.
RowsOfProjectPerRecord(in, proj_data, set_order) ==
    LET Test(prog) == /\ prog.projectId = proj_data.id
                      /\ prog.costCodeId \in project_cost_codes(in.progress, proj_data.id)
                      /\ InCostCodeMap(in.cost_codes, prog.costCodeId)
        recs == SelectSeq(in.progress, Test)
    IN  <<ProjectRow(in, proj_data)>> \o
        [k \in 1..Len(recs) |-> CostCodeRow(in, proj_data, recs[k].costCodeId)]

\* The rows appended for one project: its own row, then a row for each of
\* its cost codes that cost_code_map knows, in the order the set is
\* iterated (set_order: the cost-code ids in that order).
RowsOfProject(in, proj_data, set_order) ==
    LET Test(cc_id) == /\ cc_id \in project_cost_codes(in.progress, proj_data.id)
                       /\ InCostCodeMap(in.cost_codes, cc_id)
        ids == SelectSeq(set_order, Test)
    IN  <<ProjectRow(in, proj_data)>> \o
        [k \in 1..Len(ids) |-> CostCodeRow(in, proj_data, ids[k])]

\* What makes the call raise: cc['id'] on a cost code that is None or has
\* no id; .get on a record that is None; None / 3600 in the project sum.
CombineRaises(in) ==
    \/ \E k \in 1..Len(in.cost_codes) : in.cost_codes[k].shape # "dict"
    \/ /\ in.project_info # <<>>
       /\ \/ \E k \in 1..Len(in.hours) : in.hours[k].shape # "dict"
          \/ \E k \in 1..Len(in.costs) : in.costs[k].shape # "dict"
          \/ \E k \in 1..Len(in.progress) : in.progress[k].shape # "dict"
          \/ \E p \in 1..Len(in.project_info), k \in 1..Len(in.hours) :
                /\ ProjectLevel(in.hours[k], in.project_info[p].id)
                /\ in.hours[k].budgetSeconds = NullNum

combine_hierarchical_data(in, set_order) ==
    IF CombineRaises(in) THEN Raised
    ELSE Returned(SortedByKey(Flatten(
            [p \in 1..Len(in.project_info) |->
                RowsOfProject(in, in.project_info[p], set_order)])))

\* The arguments of the calls the model makes.  Two projects, two cost
\* codes; numbers are null, zero or positive.
ProjectA == [id |-> 1, title |-> <<65>>, archivedOn |-> NoTimestamp]
ProjectB == [id |-> 2, title |-> <<66>>, archivedOn |-> NoTimestamp]

CostCode1 == [shape |-> "dict", id |-> 1, costCode |-> <<49>>, title |-> <<120>>]
CostCode2 == [shape |-> "dict", id |-> 2, costCode |-> <<50>>, title |-> <<121>>]

HoursRecords ==
    [shape : {"dict"}, projectId : {1, 2}, costCodeId : {NoId, 1},
     budgetSeconds : {NullNum, 3600}]

CostsRecords ==
    [shape : {"dict"}, projectId : {1}, costCodeId : {NoId, 1},
     costBudget : {NullNum, 5}]

ProgressValues == { <<0, 0>>, <<3, 0>>, <<NullNum, 2>> }

\* Progress records, the id of each its position in the dataset.
ProgressSeqs(n) ==
    { [k \in 1..n |-> [shape |-> "dict", id |-> k, projectId |-> f[k][1],
                       costCodeId |-> f[k][2],
                       value |-> f[k][3][1], quantity |-> f[k][3][2]]] :
        f \in [1..n -> {1, 2} \X {NoId, 1, 2} \X ProgressValues] }

\* The orders in which a set of cost-code ids can be iterated.
SetOrders == { <<1, 2>>, <<2, 1>> }

NotInBudget ==
    /\ bEntry = "none"
    /\ bUpProjects = 0
    /\ bUpRecs = 0
    /\ bIds = <<>>
    /\ bRuns = NoRuns
    /\ bCC = "none"
    /\ bCall = "idle"
    /\ bResult = NotReturned

NotElsewhere ==
    /\ NotInBudget
    /\ MoreIdle
    /\ pKind = "none"
    /\ pPc = "idle"
    /\ pCursor = NoCursor
    /\ pAll = <<>>
    /\ pRequests = <<>>
    /\ pResps = <<>>
    /\ pServed = 0
    /\ pResult = NotReturned
    /\ hForest = NoForest
    /\ hView = FALSE
    /\ hPc = "idle"
    /\ hRows = <<>>
    /\ BatchesIdle

\* No service call is in progress.
ServicesIdle ==
    /\ BudgetIdle
    /\ pKind = "none"
    /\ pPc = "idle"
    /\ pCursor = NoCursor
    /\ pAll = <<>>
    /\ pRequests = <<>>
    /\ pResps = <<>>
    /\ pServed = 0
    /\ pResult = NotReturned
    /\ hForest = NoForest
    /\ hView = FALSE
    /\ hPc = "idle"
    /\ hRows = <<>>
    /\ BatchesIdle

InitCombine ==
    /\ \E nh, nc, np \in 0..MaxRecords :
         /\ nh + nc + np <= MaxRecords
         /\ \E hours \in [1..nh -> HoursRecords],
               costs \in [1..nc -> CostsRecords],
               progress \in ProgressSeqs(np),
               cost_codes \in { <<>>, <<CostCode1>>, <<CostCode1, CostCode2>> },
               project_info \in { <<ProjectA>>, <<ProjectA, ProjectB>> } :
              cIn = [hours |-> hours, costs |-> costs, progress |-> progress,
                     cost_codes |-> cost_codes, project_info |-> project_info]
    /\ cPc = "call"
    /\ cOut = NotReturned
    /\ NotElsewhere

\* The call runs to its return or to its exception.
Combine ==
    /\ cPc = "call"
    /\ \E set_order \in SetOrders :
         cOut' = combine_hierarchical_data(cIn, set_order)
    /\ cPc' = "done"
    /\ UNCHANGED cIn
    /\ UNCHANGED <<bEntry, bUpProjects, bUpRecs, bIds, bRuns, bCC, bCall, bResult>>
    /\ UNCHANGED <<pagVars, hierVars, moreVars>>

NextCombine == Combine

SpecCombine == InitCombine /\ [][NextCombine]_vars

\* A record that is None in place of a dict, one for each dataset, and a
\* cost code that is a dict without the key id.
NoneHours ==
    [shape |-> "none", projectId |-> NoId, costCodeId |-> NoId, budgetSeconds |-> NullNum]

NoneCosts ==
    [shape |-> "none", projectId |-> NoId, costCodeId |-> NoId, costBudget |-> NullNum]

NoneProgress ==
    [shape |-> "none", id |-> 0, projectId |-> NoId, costCodeId |-> NoId,
     value |-> NullNum, quantity |-> NullNum]

NoneCostCode == [shape |-> "none", id |-> NoId, costCode |-> <<>>, title |-> <<>>]

CostCodeWithoutId == [shape |-> "noid", id |-> NoId, costCode |-> <<49>>, title |-> <<120>>]

\* seq with x put at position k.
InsertAt(seq, k, x) ==
    SubSeq(seq, 1, k - 1) \o <<x>> \o SubSeq(seq, k, Len(seq))

\* The datasets the server returned, one of them with one bad record.
InitCombineBad ==
    /\ \E nh, nc, np \in 0..MaxRecords :
         /\ nh + nc + np <= MaxRecords
         /\ \E hours \in [1..nh -> HoursRecords],
               costs \in [1..nc -> CostsRecords],
               progress \in ProgressSeqs(np),
               cost_codes \in { <<>>, <<CostCode1>>, <<CostCode1, CostCode2>> },
               project_info \in { <<ProjectA>>, <<ProjectA, ProjectB>> } :
              LET in == [hours |-> hours, costs |-> costs, progress |-> progress,
                         cost_codes |-> cost_codes, project_info |-> project_info]
              IN  \/ \E k \in 1..(nh + 1) :
                        cIn = [in EXCEPT !.hours = InsertAt(hours, k, NoneHours)]
                  \/ \E k \in 1..(nc + 1) :
                        cIn = [in EXCEPT !.costs = InsertAt(costs, k, NoneCosts)]
                  \/ \E k \in 1..(np + 1) :
                        cIn = [in EXCEPT !.progress = InsertAt(progress, k, NoneProgress)]
                  \/ \E k \in 1..(Len(cost_codes) + 1),
                        bad \in {NoneCostCode, CostCodeWithoutId} :
                        cIn = [in EXCEPT !.cost_codes = InsertAt(cost_codes, k, bad)]
    /\ cPc = "call"
    /\ cOut = NotReturned
    /\ NotElsewhere

SpecCombineBad == InitCombineBad /\ [][NextCombine]_vars

\* Project titles with a number in them: "Lot 1", "Lot 2", "Lot 10".
Lot1 == <<76, 111, 116, 32, 49>>
Lot2 == <<76, 111, 116, 32, 50>>
Lot10 == <<76, 111, 116, 32, 49, 48>>

LotTitles == {Lot1, Lot2, Lot10}

\* Two cost codes of one label, "1 x".
CostCodeX1 == [shape |-> "dict", id |-> 1, costCode |-> <<49>>, title |-> <<120>>]
CostCodeX2 == [shape |-> "dict", id |-> 2, costCode |-> <<49>>, title |-> <<120>>]

ProgressOf(id, proj_id, cc_id) ==
    [shape |-> "dict", id |-> id, projectId |-> proj_id, costCodeId |-> cc_id,
     value |-> 3, quantity |-> 0]

\* project_info with up to MaxSortProjects projects in any insertion order,
\* each of any of the titles (two projects may have the same title), and
\* progress of the first project on the two cost codes, in either order.
InitSort ==
    /\ \E n \in 1..MaxSortProjects :
         \E ids \in [1..n -> 1..MaxSortProjects], titles \in [1..n -> LotTitles] :
           /\ \A i, j \in 1..n : ids[i] = ids[j] => i = j
           /\ \E progress \in { <<>>,
                                 <<ProgressOf(1, 1, 1), ProgressOf(2, 1, 2)>>,
                                 <<ProgressOf(2, 1, 2), ProgressOf(1, 1, 1)>> } :
                cIn = [hours |-> <<>>, costs |-> <<>>, progress |-> progress,
                       cost_codes |-> <<CostCodeX1, CostCodeX2>>,
                       project_info |->
                           [k \in 1..n |-> [id |-> ids[k], title |-> titles[k],
                                            archivedOn |-> NoTimestamp]]]
    /\ cPc = "call"
    /\ cOut = NotReturned
    /\ NotElsewhere

SpecSort == InitSort /\ [][NextCombine]_vars

\* Title paths as _build_project_title joins them: "A", "A / B", "B".
PathA == <<65>>
PathAB == <<65, 32, 47, 32, 66>>
PathB == <<66>>

PathTitles == {PathA, PathAB, PathB}

\* A cost code whose label is "c x".
CostCodeC == [shape |-> "dict", id |-> 1, costCode |-> <<99>>, title |-> <<120>>]

\* Projects of different title paths, in any insertion order; some of them
\* with progress on the one cost code, whose label begins with a digit or
\* with a letter.
InitPaths ==
    /\ \E n \in 1..MaxSortProjects :
         \E ids \in [1..n -> 1..MaxSortProjects], titles \in [1..n -> PathTitles],
            with \in SUBSET (1..MaxSortProjects),
            cost_code \in {CostCode1, CostCodeC} :
           /\ \A i, j \in 1..n : (ids[i] = ids[j] \/ titles[i] = titles[j]) => i = j
           /\ cIn = [hours |-> <<>>, costs |-> <<>>,
                     progress |-> SelectSeq([k \in 1..MaxSortProjects |-> ProgressOf(k, k, 1)],
                                            LAMBDA prog : prog.projectId \in with),
                     cost_codes |-> <<cost_code>>,
                     project_info |->
                         [k \in 1..n |-> [id |-> ids[k], title |-> titles[k],
                                          archivedOn |-> NoTimestamp]]]
    /\ cPc = "call"
    /\ cOut = NotReturned
    /\ NotElsewhere

SpecPaths == InitPaths /\ [][NextCombine]_vars

(***************************************************************************)
(* convert_utc_to_timezone.  Strings are sequences of code points.         *)
(***************************************************************************)
IsDigitChar(c) == c \in 48..57

AllDigits(str) == \A k \in 1..Len(str) : IsDigitChar(str[k])

\* The value of a string of digits.
RECURSIVE DigitsValue(_, _)
DigitsValue(str, acc) ==
    IF str = <<>> THEN acc
    ELSE DigitsValue(Tail(str), 10 * acc + (Head(str) - 48))

\* str.split(sep) on a separator of one character.
RECURSIVE SplitCharFrom(_, _, _)
SplitCharFrom(str, sep, part) ==
    IF str = <<>> THEN <<part>>
    ELSE IF Head(str) = sep
    THEN <<part>> \o SplitCharFrom(Tail(str), sep, <<>>)
    ELSE SplitCharFrom(Tail(str), sep, Append(part, Head(str)))

SplitChar(str, sep) == SplitCharFrom(str, sep, <<>>)

\* str(n) for n >= 0.
RECURSIVE DecimalOf(_)
DecimalOf(n) ==
    IF n < 10 THEN <<48 + n>> ELSE Append(DecimalOf(n \div 10), 48 + (n % 10))

RECURSIVE ZeroPad(_, _)
ZeroPad(str, width) ==
    IF Len(str) >= width THEN str ELSE ZeroPad(<<48>> \o str, width)

\* f"{n:02d}": the sign counts in the width.
Format02d(n) ==
    IF n < 0 THEN <<45>> \o ZeroPad(DecimalOf(0 - n), 1)
    ELSE ZeroPad(DecimalOf(n), 2)

\* int(str): surrounding blanks and one sign are accepted.
ParseFailed == [ok |-> FALSE, v |-> 0]

int(str) ==
    LET t == Strip(str)
        signed == t # <<>> /\ Head(t) \in {43, 45}
        digits == IF signed THEN Tail(t) ELSE t
    IN  IF digits = <<>> \/ ~ AllDigits(digits) THEN ParseFailed
        ELSE [ok |-> TRUE,
              v |-> IF signed /\ Head(t) = 45 THEN 0 - DigitsValue(digits, 0)
                    ELSE DigitsValue(digits, 0)]

IsLeap(year) == year % 4 = 0 /\ (year % 100 # 0 \/ year % 400 = 0)

DaysInMonth(year, month) ==
    IF month = 2 THEN (IF IsLeap(year) THEN 29 ELSE 28)
    ELSE IF month \in {4, 6, 9, 11} THEN 30 ELSE 31

\* A field of the format: a run of digits of the given lengths, in range.
Field(str, minLen, maxLen, lo, hi) ==
    /\ Len(str) \in minLen..maxLen
    /\ AllDigits(str)
    /\ DigitsValue(str, 0) \in lo..hi

NoDatetime == [ok |-> FALSE, Y |-> 0, M |-> 0, D |-> 0, h |-> 0, m |-> 0, s |-> 0]

\* datetime.strptime(dt, '%Y-%m-%dT%H:%M:%S'): the whole string has to
\* match, and the date has to exist.
strptime(dt) ==
    LET halves == SplitChar(dt, 84)
        date == SplitChar(halves[1], 45)
        time == SplitChar(halves[2], 58)
    IN  IF Len(halves) # 2 THEN NoDatetime
        ELSE IF Len(date) # 3 \/ Len(time) # 3 THEN NoDatetime
        ELSE IF ~ ( /\ Field(date[1], 4, 4, 1, 9999)
                    /\ Field(date[2], 1, 2, 1, 12)
                    /\ Field(date[3], 1, 2, 1, 31)
                    /\ Field(time[1], 1, 2, 0, 23)
                    /\ Field(time[2], 1, 2, 0, 59)
                    /\ Field(time[3], 1, 2, 0, 59) ) THEN NoDatetime
        ELSE IF DigitsValue(date[3], 0) >
                    DaysInMonth(DigitsValue(date[1], 0), DigitsValue(date[2], 0))
        THEN NoDatetime
        ELSE [ok |-> TRUE,
              Y |-> DigitsValue(date[1], 0), M |-> DigitsValue(date[2], 0),
              D |-> DigitsValue(date[3], 0), h |-> DigitsValue(time[1], 0),
              m |-> DigitsValue(time[2], 0), s |-> DigitsValue(time[3], 0)]

\* The days before the first of January of the year, and before the first
\* of the month.
DaysBeforeYear(year) ==
    LET y == year - 1 IN y * 365 + (y \div 4) - (y \div 100) + (y \div 400)

RECURSIVE DaysBeforeMonth(_, _)
DaysBeforeMonth(year, month) ==
    IF month = 1 THEN 0
    ELSE DaysBeforeMonth(year, month - 1) + DaysInMonth(year, month - 1)

toordinal(t) == DaysBeforeYear(t.Y) + DaysBeforeMonth(t.Y, t.M) + t.D

\* date.fromordinal(n), for a day within a year of the year given.
fromordinal(n, near) ==
    LET year == CHOOSE y \in (near - 1)..(near + 1) :
                    DaysBeforeYear(y) < n /\ n <= DaysBeforeYear(y + 1)
        rest == n - DaysBeforeYear(year)
        month == CHOOSE mo \in 1..12 :
                    /\ DaysBeforeMonth(year, mo) < rest
                    /\ rest <= DaysBeforeMonth(year, mo) + DaysInMonth(year, mo)
    IN  [Y |-> year, M |-> month, D |-> rest - DaysBeforeMonth(year, month)]

\* utc_dt - timedelta(minutes=total_minutes)
MinusTimedelta(t, total_minutes) ==
    LET minutes == t.h * 60 + t.m - total_minutes
        date == fromordinal(toordinal(t) + (minutes \div 1440), t.Y)
    IN  [ok |-> TRUE, Y |-> date.Y, M |-> date.M, D |-> date.D,
         h |-> (minutes % 1440) \div 60, m |-> minutes % 60, s |-> t.s]

\* utc_dt + timedelta(minutes=total_minutes)
PlusTimedelta(t, total_minutes) ==
    LET minutes == t.h * 60 + t.m + total_minutes
        date == fromordinal(toordinal(t) + (minutes \div 1440), t.Y)
    IN  [ok |-> TRUE, Y |-> date.Y, M |-> date.M, D |-> date.D,
         h |-> (minutes % 1440) \div 60, m |-> minutes % 60, s |-> t.s]

\* local_dt.strftime('%Y-%m-%dT%H:%M:%S.000')
strftime(t) ==
    ZeroPad(DecimalOf(t.Y), 4) \o <<45>> \o ZeroPad(DecimalOf(t.M), 2) \o <<45>>
    \o ZeroPad(DecimalOf(t.D), 2) \o <<84>> \o ZeroPad(DecimalOf(t.h), 2) \o <<58>>
    \o ZeroPad(DecimalOf(t.m), 2) \o <<58>> \o ZeroPad(DecimalOf(t.s), 2)
    \o <<46, 48, 48, 48>>

StartsWith(str, prefix) ==
    Len(str) >= Len(prefix) /\ SubSeq(str, 1, Len(prefix)) = prefix

GMT == <<71, 77, 84>>

convert_utc_to_timezone(dt, timezone_str) ==
    IF dt = <<>> \/ timezone_str = <<>> THEN <<>>
    ELSE LET utc_dt == strptime(dt)
             tz == Strip(timezone_str)
             after == Strip(SubSeq(tz, 4, Len(tz)))
             offset_str == IF StartsWith(after, <<43>>) \/ StartsWith(after, <<45>>)
                           THEN after ELSE <<43>> \o after
             sign == offset_str[1]
             parts == SplitChar(Tail(offset_str), 58)
             hours == int(parts[1])
             minutes == int(parts[2])
             total_minutes == (hours.v * 60 + minutes.v) * (IF sign = 43 THEN 1 ELSE -1)
         IN  IF ~ utc_dt.ok THEN <<>>
             ELSE IF ~ StartsWith(tz, GMT) THEN <<>>
             ELSE IF Len(parts) # 2 THEN <<>>
             ELSE IF ~ hours.ok \/ ~ minutes.ok THEN <<>>
             ELSE strftime(PlusTimedelta(utc_dt, total_minutes))
                  \o <<sign>> \o Format02d(hours.v) \o <<58>> \o Format02d(minutes.v)

\* The timestamps of the calls: days at the ends of months and years, of a
\* leap year and of a common year (the 29th of February of the common year
\* is no date), times at the ends of the day.
StampYears == {2023, 2024}
StampDays == { <<1, 1>>, <<2, 28>>, <<2, 29>>, <<3, 1>>, <<12, 31>> }
StampHours == {0, 12, 23}
StampMinutes == {0, 30, 59}
StampSeconds == {0, 59}

PlainStamp(y, md, h, m, sec) ==
    ZeroPad(DecimalOf(y), 4) \o <<45>> \o ZeroPad(DecimalOf(md[1]), 2) \o <<45>>
    \o ZeroPad(DecimalOf(md[2]), 2) \o <<84>> \o ZeroPad(DecimalOf(h), 2) \o <<58>>
    \o ZeroPad(DecimalOf(m), 2) \o <<58>> \o ZeroPad(DecimalOf(sec), 2)

\* What follows the seconds: nothing, ".123", "Z", ".123Z".
StampSuffixes == { <<>>, <<46, 49, 50, 51>>, <<90>>, <<46, 49, 50, 51, 90>> }

Stamps ==
    { PlainStamp(y, md, h, m, sec) \o suffix :
        y \in StampYears, md \in StampDays, h \in StampHours,
        m \in StampMinutes, sec \in StampSeconds, suffix \in StampSuffixes }

\* Zone descriptors: GMT, an optional sign, hours and minutes of two digits.
OffsetHours == {0, 5, 23}
OffsetMinutes == {0, 30, 45}

Descriptor(sign, hh, mm) ==
    GMT \o sign \o ZeroPad(DecimalOf(hh), 2) \o <<58>> \o ZeroPad(DecimalOf(mm), 2)

GoodZones ==
    { Descriptor(sign, hh, mm) :
        sign \in { <<43>>, <<45>>, <<>> }, hh \in OffsetHours, mm \in OffsetMinutes }

\* "BADZONE", "GMT+5:30", "GMT+05", "GMT+-05:30", "GMT", "GMT+05:30:00",
\* "GMT+0A:30", "UTC+05:30".
BadZones ==
    { <<66, 65, 68, 90, 79, 78, 69>>,
      <<71, 77, 84, 43, 53, 58, 51, 48>>,
      <<71, 77, 84, 43, 48, 53>>,
      <<71, 77, 84, 43, 45, 48, 53, 58, 51, 48>>,
      <<71, 77, 84>>,
      <<71, 77, 84, 43, 48, 53, 58, 51, 48, 58, 48, 48>>,
      <<71, 77, 84, 43, 48, 65, 58, 51, 48>>,
      <<85, 84, 67, 43, 48, 53, 58, 51, 48>> }

InitTimezone ==
    /\ zDt \in Stamps
    /\ zTz \in GoodZones \cup BadZones
    /\ zPc = "call"
    /\ zOut = <<>>
    /\ ServicesIdle
    /\ RedisIdle
    /\ RequestsIdle

Convert ==
    /\ zPc = "call"
    /\ zOut' = convert_utc_to_timezone(zDt, zTz)
    /\ zPc' = "done"
    /\ UNCHANGED <<zDt, zTz>>
    /\ UNCHANGED notTz

NextTimezone == Convert

SpecTimezone == InitTimezone /\ [][NextTimezone]_vars

(***************************************************************************)
(* RedisCache and the redis_cache decorator.  A key is the sequence of its *)
(* words and separators: "budget_active_data" is                           *)
(* <<"budget", "_", "active", "_", "data">>.                               *)
(***************************************************************************)
\* RedisCache._get_full_key
get_full_key(prefix, key) ==
    IF StartsWith(key, <<prefix, "_">>) \/ StartsWith(key, <<prefix, ":">>)
    THEN key
    ELSE <<prefix, ":">> \o key

None == [none |-> TRUE]

\* redis_client.get(full_key), json.loads(data): the value, or None.
Lookup(store, full_key) ==
    IF \E e \in store : e[1] = full_key
    THEN (CHOOSE e \in store : e[1] = full_key)[2]
    ELSE None

\* RedisCache.get
RedisGet(client, store, prefix, key) ==
    IF ~ client THEN None ELSE Lookup(store, get_full_key(prefix, key))

\* redis_client.setex(full_key, ttl_seconds, serialized)
Setex(store, full_key, value) ==
    { e \in store : e[1] # full_key } \cup { <<full_key, value>> }

\* RedisCache.set: the store after it.
RedisSet(client, store, prefix, key, value) ==
    IF ~ client THEN store ELSE Setex(store, get_full_key(prefix, key), value)

\* redis_client.keys(pattern) for the pattern of clear.
ClearPattern(prefix, full_key) == StartsWith(full_key, <<prefix, ":">>)

\* RedisCache.clear: the store after it.
RedisClear(client, store, prefix) ==
    IF ~ client THEN store
    ELSE { e \in store : ~ ClearPattern(prefix, e[1]) }

\* The caches of the module and the keys the model stores under.
Prefixes == {"budget", "project"}

\* The key the decorator builds.
DecoratorKey(service_name, status) ==
    IF status = "unknown" THEN <<service_name, "_", "unknownStatusData">>
    ELSE <<service_name, "_", status, "_", "data">>

DirectKeys == { <<"x">> }

Keys ==
    DirectKeys \cup { DecoratorKey("budget", status) :
                        status \in {"active", "archived", "unknown"} }

\* The rows a call of the wrapped function returns: those the upstream
\* gives to the API key for the view.
ApiKeys == {"key1", "key2"}

RowsFor(api_key, is_archived) == [api_key |-> api_key, is_archived |-> is_archived]

Values == { RowsFor(api_key, is_archived) : api_key \in ApiKeys, is_archived \in BOOLEAN }

\* The ways the wrapped function is called: a method or a plain function,
\* is_archived by position or by keyword, a timezone after it or not.
Styles == {"method_pos", "method_kw", "function_pos", "function_kw", "function_pos_tz"}

\* A positional argument, a bool or a str.
Bool(b) == [type |-> "bool", b |-> b]
Str(str) == [type |-> "str", str |-> str]

ArgsOf(style, api_key, is_archived) ==
    IF style = "method_pos" THEN <<Str("self"), Str(api_key), Bool(is_archived)>>
    ELSE IF style = "method_kw" THEN <<Str("self"), Str(api_key)>>
    ELSE IF style = "function_pos" THEN <<Str(api_key), Bool(is_archived)>>
    ELSE IF style = "function_kw" THEN <<Str(api_key)>>
    ELSE <<Str(api_key), Bool(is_archived), Str("GMT+05:30")>>

HasKeyword(style) == style \in {"method_kw", "function_kw"}

\* "archived" if is_archived else "active", of a bool or a str.
StatusWord(is_archived) ==
    IF (IF is_archived.type = "bool" THEN is_archived.b ELSE is_archived.str # "")
    THEN "archived" ELSE "active"

\* wrapper: the status it reads from its arguments.
StatusOfCall(style, api_key, is_archived) ==
    LET args == ArgsOf(style, api_key, is_archived)
    IN  IF HasKeyword(style) THEN StatusWord(Bool(is_archived))
        ELSE IF Len(args) > 2 THEN StatusWord(args[3])
        ELSE "unknown"

InitRedis ==
    /\ rClient \in BOOLEAN
    /\ rStore = {}
    /\ rLast = NoOperation
    /\ ServicesIdle
    /\ TimezoneIdle
    /\ RequestsIdle

\* cache_instance.set(key, value) on the cache of a prefix.
CacheSet ==
    \E prefix \in Prefixes, key \in DirectKeys, value \in {RowsFor("key1", FALSE)} :
        /\ rStore' = RedisSet(rClient, rStore, prefix, key, value)
        /\ rLast' = [op |-> "set", prefix |-> prefix, key |-> key, ok |-> rClient]
        /\ UNCHANGED rClient
        /\ UNCHANGED notRedis

\* cache_instance.get(key)
CacheGet ==
    \E prefix \in Prefixes, key \in Keys :
        /\ rLast' = [op |-> "get", prefix |-> prefix, key |-> key,
                     result |-> RedisGet(rClient, rStore, prefix, key)]
        /\ UNCHANGED <<rClient, rStore>>
        /\ UNCHANGED notRedis

\* cache_instance.invalidate(key)
CacheInvalidate ==
    \E prefix \in Prefixes, key \in Keys :
        /\ rStore' = IF rClient
                     THEN { e \in rStore : e[1] # get_full_key(prefix, key) }
                     ELSE rStore
        /\ rLast' = [op |-> "invalidate", prefix |-> prefix, key |-> key,
                     result |-> rStore' # rStore]
        /\ UNCHANGED rClient
        /\ UNCHANGED notRedis

\* cache_instance.clear()
CacheClear ==
    \E prefix \in Prefixes :
        /\ rStore' = RedisClear(rClient, rStore, prefix)
        /\ rLast' = [op |-> "clear", prefix |-> prefix,
                     count |-> Cardinality(rStore) - Cardinality(rStore')]
        /\ UNCHANGED rClient
        /\ UNCHANGED notRedis

\* The entry of a key reaches its time to live.
Expire ==
    \E e \in rStore :
        /\ rStore' = rStore \ {e}
        /\ rLast' = [op |-> "expire", key |-> e[1]]
        /\ UNCHANGED rClient
        /\ UNCHANGED notRedis

\* A call of a function of budget_service wrapped by
\* redis_cache(budget_cache): the cached result on a hit, else the result of
\* the function, which is stored.
WrapperCall ==
    \E style \in Styles, api_key \in ApiKeys, is_archived \in BOOLEAN :
        LET cache_key == DecoratorKey("budget", StatusOfCall(style, api_key, is_archived))
            cached_result == RedisGet(rClient, rStore, "budget", cache_key)
            result == RowsFor(api_key, is_archived)
        IN  /\ rStore' = IF cached_result # None THEN rStore
                         ELSE RedisSet(rClient, rStore, "budget", cache_key, result)
            /\ rLast' = [op |-> "call", style |-> style, api_key |-> api_key,
                         is_archived |-> is_archived, hit |-> cached_result # None,
                         result |-> IF cached_result # None THEN cached_result ELSE result]
            /\ UNCHANGED rClient
            /\ UNCHANGED notRedis

NextRedis ==
    \/ CacheSet
    \/ CacheGet
    \/ CacheInvalidate
    \/ CacheClear
    \/ Expire
    \/ WrapperCall

SpecRedis == InitRedis /\ [][NextRedis]_vars

(***************************************************************************)
(* The request handlers get_projects and get_employees, with the           *)
(* construction of the service each of them uses.                          *)
(***************************************************************************)
\* The statuses the handlers name.
Unauthorized == 401
BadRequest == 400
GatewayTimeout == 504
InternalError == 500
Ok == 200

\* An exception raised inside the try of a handler.
HttpException(status_code) == [type |-> "HTTPException", status_code |-> status_code]
OtherException(type) == [type |-> type, status_code |-> 0]

\* except Exception as e: raise HTTPException(status_code=500, ...)
HandlerExcept(e) == InternalError

\* cache_key of fetch_projects.
ProjectCacheKey(is_archived) ==
    <<"project", "_", "data", "_", IF is_archived THEN "archive" ELSE "active">>

\* RedisCache.__init__(self, prefix, ttl_seconds=300) called with the
\* arguments given: the exception, or none.
NoException == [type |-> "none", status_code |-> 0]

RedisCacheInit(arguments) ==
    IF Len(arguments) < 1 THEN OtherException("TypeError") ELSE NoException

\* ProjectService.__init__: self.cache = RedisCache()
ProjectServiceInit == RedisCacheInit(<<>>)

\* EmployeeService.__init__ sets three attributes.
EmployeeServiceInit == NoException

ServiceInit(endpoint) ==
    IF endpoint = "projects" THEN ProjectServiceInit ELSE EmployeeServiceInit

\* The API keys of the requests: none, of 19, of 20 and of 21 characters.
ApiKeyLengths == {0, 19, 20, 21}

\* "GMT+05:30", "GMT", "UTC", "gmt+05:30"
RequestTimezones ==
    { <<71, 77, 84, 43, 48, 53, 58, 51, 48>>, <<71, 77, 84>>, <<85, 84, 67>>,
      <<103, 109, 116, 43, 48, 53, 58, 51, 48>> }

\* What the upstream does when asked: answers in time, fails, or takes
\* longer than the handler waits.
UpstreamBehaviours == {"answers", "fails", "slow"}

CachedRows == [rows |-> "cached"]
FetchedRows == [rows |-> "fetched"]

InitRequests ==
    /\ \E endpoint \in {"projects", "employees"}, n \in ApiKeyLengths,
          timezone \in RequestTimezones, is_archived \in BOOLEAN,
          upstream \in UpstreamBehaviours :
         qReq = [endpoint |-> endpoint, api_key |-> [k \in 1..n |-> 97],
                 timezone |-> timezone, is_archived |-> is_archived,
                 upstream |-> upstream]
    /\ qPc = "received"
    /\ qStatus = 0
    /\ qBody = NoRows
    /\ qFetch = FALSE
    /\ rClient = TRUE
    /\ rStore \in SUBSET { <<ProjectCacheKey(is_archived), CachedRows>> :
                             is_archived \in BOOLEAN }
    /\ rLast = NoOperation
    /\ ServicesIdle
    /\ TimezoneIdle

\* What the handler raises before it awaits the service, or none.
RaisedBeforeFetch(req) ==
    IF req.api_key = <<>> \/ Len(req.api_key) < 20 THEN HttpException(Unauthorized)
    ELSE IF ~ StartsWith(req.timezone, GMT) THEN HttpException(BadRequest)
    ELSE ServiceInit(req.endpoint)

\* The handler up to its first await: the validation, the construction of
\* the service, and the except clause when one of them raises.
HandlerStarts ==
    /\ qPc = "received"
    /\ LET e == RaisedBeforeFetch(qReq)
       IN  IF e.type # "none"
           THEN /\ qStatus' = HandlerExcept(e)
                /\ qPc' = "responded"
                /\ qFetch' = FALSE
           ELSE /\ qStatus' = 0
                /\ qPc' = "fetching"
                /\ qFetch' = TRUE
    /\ UNCHANGED <<qReq, qBody>>
    /\ UNCHANGED notReq

\* The service returns within the time limit.
FetchReturns ==
    /\ qPc = "fetching"
    /\ qReq.upstream = "answers"
    /\ qStatus' = Ok
    /\ qBody' = FetchedRows
    /\ qPc' = "responded"
    /\ UNCHANGED <<qReq, qFetch>>
    /\ UNCHANGED notReq

\* The service raises.
FetchRaises ==
    /\ qPc = "fetching"
    /\ qReq.upstream = "fails"
    /\ qStatus' = HandlerExcept(OtherException("Exception"))
    /\ qPc' = "responded"
    /\ UNCHANGED <<qReq, qBody, qFetch>>
    /\ UNCHANGED notReq

\* asyncio.wait_for gives up after 180 seconds: TimeoutError, for which the
\* handler raises HTTPException(504) inside its outer try.
FetchTimesOut ==
    /\ qPc = "fetching"
    /\ qReq.upstream = "slow"
    /\ qStatus' = HandlerExcept(HttpException(GatewayTimeout))
    /\ qPc' = "responded"
    /\ UNCHANGED <<qReq, qBody, qFetch>>
    /\ UNCHANGED notReq

NextRequests ==
    \/ HandlerStarts
    \/ FetchReturns
    \/ FetchRaises
    \/ FetchTimesOut

SpecRequests == InitRequests /\ [][NextRequests]_vars

RootOf(f, i) ==
    IF f.parent[i] = 0 THEN i
    ELSE CHOOSE r \in Ancestors(f, i) : f.parent[r] = 0

\* C12: a node that is not a well-formed project dict yields no row, and
\* every well-formed node of the same tree that passes the view filter
\* still has its row.
C12_InvalidNodeSkipped ==
    hPc = "returned" =>
        \A b \in Nodes(hForest) :
            hForest.shape[b] # "dict" =>
                /\ RowsOf(hRows, b) = {}
                /\ \A i \in Nodes(hForest) :
                     ( /\ RootOf(hForest, i) = RootOf(hForest, b)
                       /\ hForest.shape[i] = "dict"
                       /\ KeptUnderView(hForest, hView, i) ) =>
                         RowsOf(hRows, i) # {}

\* The child of the lowest common ancestor of i and j on the way to i, for
\* two nodes of one tree neither of which is above the other.
BranchTo(f, i, j) ==
    LET up(n) == Ancestors(f, n) \cup {n}
    IN  CHOOSE a \in up(i) \ up(j) : f.parent[a] \in up(j)

\* Depth-first pre-order over the roots in input order, siblings in
\* ascending title order (equal titles in source order).
PreOrderBefore(f, i, j) ==
    IF RootOf(f, i) # RootOf(f, j) THEN RootOf(f, i) < RootOf(f, j)
    ELSE IF i \in Ancestors(f, j) THEN TRUE
    ELSE IF j \in Ancestors(f, i) \/ i = j THEN FALSE
    ELSE LET a == BranchTo(f, i, j)
             b == BranchTo(f, j, i)
         IN  \/ StrLess(f.title[a], f.title[b])
             \/ f.title[a] = f.title[b] /\ a < b

\* C13: whatever the batch size and the interleaving of the batch workers,
\* _process_projects_in_batches returns one row for every root and every
\* node kept under the view, in depth-first pre-order: roots in input
\* order, a node before its descendants, siblings by ascending title.
C13_BatchesGivePreOrder ==
    tResult.ok =>
        /\ \A i \in Nodes(hForest) :
             Cardinality(RowsOf(tResult.rows, i)) =
                IF KeptUnderView(hForest, hView, i) THEN 1 ELSE 0
        /\ \A k, l \in 1..Len(tResult.rows) :
             k < l => PreOrderBefore(hForest, tResult.rows[k].id, tResult.rows[l].id)

\* Two active roots, the first without children and the second with one
\* active child, each root in a batch of its own: the rows are those of the
\* first root, then the second root and its child.
C13_Witness ==
    /\ tResult.ok
    /\ hView = FALSE
    /\ hForest.parent = <<0, 0, 2>>
    /\ \A i \in 1..3 : hForest.archivedOn[i] = NoTimestamp
    /\ tBatchSize = 1
    /\ [k \in 1..Len(tResult.rows) |-> tResult.rows[k].id] = <<1, 2, 3>>
    /\ tResult.rows[3].project_names[2] = Strip(hForest.title[3])

KeyOf(row) == <<row.project_id, row.cost_code_id>>

\* C14: the rows returned by _combine_hierarchical_data carry pairwise
\* different (project_id, cost_code_id) keys.
C14_OneRowPerKey ==
    (cPc = "done" /\ cOut.ok) =>
        \A k, l \in 1..Len(cOut.rows) :
            k # l => KeyOf(cOut.rows[k]) # KeyOf(cOut.rows[l])

\* Two progress records with a value for the same project and cost code:
\* one row for the pair.
C14_Witness ==
    /\ cPc = "done"
    /\ cOut.ok
    /\ Len(cIn.progress) = 2
    /\ cIn.progress[1].projectId = cIn.progress[2].projectId
    /\ cIn.progress[1].costCodeId = cIn.progress[2].costCodeId
    /\ Truthy(cIn.progress[1].value) /\ Truthy(cIn.progress[2].quantity)
    /\ \E k \in 1..Len(cOut.rows) :
         KeyOf(cOut.rows[k]) = <<cIn.progress[1].projectId, cIn.progress[1].costCodeId>>

\* The sum of the amounts at the positions ks.
RECURSIVE SumAt(_, _)
SumAt(amounts, ks) ==
    IF ks = {} THEN 0
    ELSE LET k == CHOOSE x \in ks : TRUE
         IN  amounts[k] + SumAt(amounts, ks \ {k})

\* The positions of the records of a project that carry no costCodeId.
OwnRecords(records, proj_id) ==
    { k \in 1..Len(records) :
        records[k].projectId = proj_id /\ records[k].costCodeId = NoId }

\* C15: every project of project_info has exactly one row without cost
\* code, also when no record mentions the project; its progress_value and
\* quantity are 0, and its labor_hours and labor_cost are the sums over the
\* hours and costs records of the project that carry no costCodeId (a null
\* amount counting as 0).
C15_ProjectRowAlways ==
    cPc = "done" =>
        \A p \in 1..Len(cIn.project_info) :
            LET proj_id == cIn.project_info[p].id
                mine == { k \in 1..Len(cOut.rows) : KeyOf(cOut.rows[k]) = <<proj_id, NoId>> }
                hoursOf == [k \in 1..Len(cIn.hours) |->
                              IF cIn.hours[k].budgetSeconds = NullNum THEN 0
                              ELSE cIn.hours[k].budgetSeconds \div 3600]
                costOf == [k \in 1..Len(cIn.costs) |->
                             IF cIn.costs[k].costBudget = NullNum THEN 0
                             ELSE cIn.costs[k].costBudget]
            IN  /\ Cardinality(mine) = 1
                /\ \A k \in mine :
                     /\ cOut.rows[k].progress_value = 0
                     /\ cOut.rows[k].quantity = 0
                     /\ cOut.rows[k].labor_hours =
                          SumAt(hoursOf, OwnRecords(cIn.hours, proj_id))
                     /\ cOut.rows[k].labor_cost =
                          SumAt(costOf, OwnRecords(cIn.costs, proj_id))

\* The progress dataset holds a record of the project and cost code whose
\* value or quantity is not zero.
HasProgress(progress, proj_id, cc_id) ==
    \E k \in 1..Len(progress) :
        /\ progress[k].projectId = proj_id
        /\ progress[k].costCodeId = cc_id
        /\ \/ progress[k].value \notin {NullNum, 0}
           \/ progress[k].quantity \notin {NullNum, 0}

\* C16: of a call that returns, the output has a row for project p and
\* cost code c if and only if the progress dataset holds a record for p and
\* c with a non-zero value or quantity.
C16_CostCodeRowIffProgress ==
    (cPc = "done" /\ cOut.ok) =>
        \A p \in 1..Len(cIn.project_info), cc_id \in {1, 2} :
            (\E k \in 1..Len(cOut.rows) :
                KeyOf(cOut.rows[k]) = <<cIn.project_info[p].id, cc_id>>)
            <=> HasProgress(cIn.progress, cIn.project_info[p].id, cc_id)

\* C17: a null budgetSeconds, costBudget, value or quantity is read as 0
\* and the aggregation returns: an hours record with a null budgetSeconds
\* adds nothing to the project's own row, and gives a cost-code row 0 hours.
C17_NullReadsAsZero ==
    cPc = "done" =>
        /\ cOut.ok
        /\ \A k \in 1..Len(cOut.rows) :
             LET row == cOut.rows[k]
                 hoursOf == [j \in 1..Len(cIn.hours) |->
                               IF cIn.hours[j].budgetSeconds = NullNum THEN 0
                               ELSE cIn.hours[j].budgetSeconds \div 3600]
             IN  /\ row.cost_code_id = NoId =>
                      row.labor_hours = SumAt(hoursOf, OwnRecords(cIn.hours, row.project_id))
                 /\ (row.cost_code_id # NoId /\
                        \E j \in 1..Len(cIn.hours) :
                            /\ cIn.hours[j].projectId = row.project_id
                            /\ cIn.hours[j].costCodeId = row.cost_code_id
                            /\ cIn.hours[j].budgetSeconds = NullNum
                            /\ \A i \in 1..(j - 1) :
                                   ~ ( cIn.hours[i].projectId = row.project_id
                                       /\ cIn.hours[i].costCodeId = row.cost_code_id ))
                      => row.labor_hours = 0
                 /\ row.labor_cost >= 0 /\ row.progress_value >= 0 /\ row.quantity >= 0

\* The datasets without the records that are not well-formed dicts.
WellFormed(record) == record.shape = "dict"

WithoutBadRecords(in) ==
    [in EXCEPT !.hours = SelectSeq(in.hours, WellFormed),
               !.costs = SelectSeq(in.costs, WellFormed),
               !.progress = SelectSeq(in.progress, WellFormed),
               !.cost_codes = SelectSeq(in.cost_codes, WellFormed)]

\* C18: when one record of hours, costs, progress or cost codes is not
\* well-formed, the call returns, and it returns the rows it returns without
\* that record (stated of the inputs whose well-formed records alone do not
\* make the call raise).
C18_BadRecordSkipped ==
    (cPc = "done" /\ ~ CombineRaises(WithoutBadRecords(cIn))) =>
        /\ cOut.ok
        /\ \E set_order \in SetOrders :
              cOut = combine_hierarchical_data(WithoutBadRecords(cIn), set_order)

IsDigit(c) == c \in 48..57

\* The length of the longest prefix of str whose characters all are digits
\* (digits = TRUE) or all are not (digits = FALSE).
RECURSIVE RunLen(_, _)
RunLen(str, digits) ==
    IF str = <<>> \/ IsDigit(Head(str)) # digits THEN 0
    ELSE 1 + RunLen(Tail(str), digits)

RECURSIVE IntOf(_, _)
IntOf(str, acc) ==
    IF str = <<>> THEN acc ELSE IntOf(Tail(str), 10 * acc + (Head(str) - 48))

\* A segment as its tokens: a maximal digit run as its integer, a maximal
\* run of other characters as its case-folded string.
RECURSIVE NaturalTokens(_)
NaturalTokens(str) ==
    IF str = <<>> THEN <<>>
    ELSE LET digits == IsDigit(Head(str))
             n == RunLen(str, digits)
             run == SubSeq(str, 1, n)
         IN  <<[num |-> digits,
                int |-> IF digits THEN IntOf(run, 0) ELSE 0,
                str |-> IF digits THEN <<>> ELSE Lower(run)]>>
             \o NaturalTokens(SubSeq(str, n + 1, Len(str)))

TokenLess(a, b) ==
    IF a.num # b.num THEN a.num
    ELSE IF a.num THEN a.int < b.int
    ELSE StrLess(a.str, b.str)

RECURSIVE TokensLess(_, _)
TokensLess(a, b) ==
    IF b = <<>> THEN FALSE
    ELSE IF a = <<>> THEN TRUE
    ELSE IF Head(a) # Head(b) THEN TokenLess(Head(a), Head(b))
    ELSE TokensLess(Tail(a), Tail(b))

\* The natural order of two paths, segment by segment.
RECURSIVE SegmentsLess(_, _)
SegmentsLess(a, b) ==
    IF b = <<>> THEN FALSE
    ELSE IF a = <<>> THEN TRUE
    ELSE IF NaturalTokens(Head(a)) # NaturalTokens(Head(b))
         THEN TokensLess(NaturalTokens(Head(a)), NaturalTokens(Head(b)))
    ELSE SegmentsLess(Tail(a), Tail(b))

NaturalLess(title1, title2) == SegmentsLess(Split(title1), Split(title2))

\* C19: the rows come out in the natural order of their title paths: no
\* row follows a row whose path is greater in numeric-aware comparison, so
\* "Lot 2" is never after "Lot 10".
C19_NaturalOrder ==
    (cPc = "done" /\ cOut.ok) =>
        \A k, j \in 1..Len(cOut.rows) :
            k < j => ~ NaturalLess(cOut.rows[j].project_title, cOut.rows[k].project_title)

\* The records of a sequence in ascending order of their ids.
SortById(seq) ==
    LET n == Len(seq)
        Rank(k) == Cardinality({ j \in 1..n : seq[j].id < seq[k].id }) + 1
    IN  [r \in 1..n |-> seq[CHOOSE k \in 1..n : Rank(k) = r]]

KeysOf(rows) == [k \in 1..Len(rows) |-> KeyOf(rows[k])]

\* C20: the sequence of (project_id, cost_code_id) keys of the output is
\* the one the call gives for the same inputs arranged in ascending order of
\* id, so it is the same for every arrangement of the inputs.
C20_OrderIndependentOfInput ==
    (cPc = "done" /\ cOut.ok) =>
        KeysOf(cOut.rows) =
            KeysOf(combine_hierarchical_data(
                       [cIn EXCEPT !.project_info = SortById(cIn.project_info),
                                   !.progress = SortById(cIn.progress),
                                   !.cost_codes = SortById(cIn.cost_codes)],
                       <<1, 2>>).rows)

\* C21: the rows of one project are contiguous and begin with its
\* project-level row: no row of another project lies between two rows of
\* the same project, and no cost-code row precedes its project's own row.
C21_ProjectRowsContiguous ==
    (cPc = "done" /\ cOut.ok) =>
        \A k, j \in 1..Len(cOut.rows) :
            (k < j /\ cOut.rows[k].project_id = cOut.rows[j].project_id) =>
                /\ cOut.rows[j].cost_code_id # NoId
                /\ \A m \in k..j : cOut.rows[m].project_id = cOut.rows[k].project_id

\* A descriptor of the form GMT, optional sign, two digits, colon, two
\* digits.
WellFormedDescriptor(tz) ==
    LET body == IF Len(tz) >= 4 /\ tz[4] \in {43, 45}
                THEN SubSeq(tz, 5, Len(tz)) ELSE SubSeq(tz, 4, Len(tz))
    IN  /\ StartsWith(tz, GMT)
        /\ Len(body) = 5
        /\ body[3] = 58
        /\ \A k \in {1, 2, 4, 5} : IsDigitChar(body[k])

\* C22: for a zone descriptor that is not of the form GMT, optional sign,
\* HH, colon, MM the function returns the empty string.
C22_MalformedZoneGivesSentinel ==
    (zPc = "done" /\ ~ WellFormedDescriptor(zTz)) => zOut = <<>>

\* A timestamp of the form YYYY-MM-DDTHH:MM:SS that names an existing
\* instant, as its fields.
FieldsOf(dt) ==
    [Y |-> DigitsValue(SubSeq(dt, 1, 4), 0), M |-> DigitsValue(SubSeq(dt, 6, 7), 0),
     D |-> DigitsValue(SubSeq(dt, 9, 10), 0), h |-> DigitsValue(SubSeq(dt, 12, 13), 0),
     m |-> DigitsValue(SubSeq(dt, 15, 16), 0), s |-> DigitsValue(SubSeq(dt, 18, 19), 0)]

ExistingInstant(dt) ==
    /\ Len(dt) >= 19
    /\ \A k \in 1..19 : IF k \in {5, 8} THEN dt[k] = 45
                         ELSE IF k = 11 THEN dt[k] = 84
                         ELSE IF k \in {14, 17} THEN dt[k] = 58
                         ELSE IsDigitChar(dt[k])
    /\ LET t == FieldsOf(dt)
       IN  /\ t.M \in 1..12 /\ t.D \in 1..DaysInMonth(t.Y, t.M)
           /\ t.h \in 0..23 /\ t.m \in 0..59 /\ t.s \in 0..59

\* The day after and the day before a date.
NextDay(t) ==
    IF t.D < DaysInMonth(t.Y, t.M) THEN [t EXCEPT !.D = t.D + 1]
    ELSE IF t.M < 12 THEN [t EXCEPT !.M = t.M + 1, !.D = 1]
    ELSE [t EXCEPT !.Y = t.Y + 1, !.M = 1, !.D = 1]

PrevDay(t) ==
    IF t.D > 1 THEN [t EXCEPT !.D = t.D - 1]
    ELSE IF t.M > 1 THEN [t EXCEPT !.M = t.M - 1, !.D = DaysInMonth(t.Y, t.M - 1)]
    ELSE [t EXCEPT !.Y = t.Y - 1, !.M = 12, !.D = 31]

RECURSIVE ShiftDays(_, _)
ShiftDays(t, days) ==
    IF days = 0 THEN t
    ELSE IF days > 0 THEN ShiftDays(NextDay(t), days - 1)
    ELSE ShiftDays(PrevDay(t), days + 1)

\* The instant shifted by a number of minutes, carrying field by field.
ShiftMinutes(t, shift) ==
    LET minute == t.m + shift
        hour == t.h + (minute \div 60)
    IN  ShiftDays([t EXCEPT !.m = minute % 60, !.h = hour % 24], hour \div 24)

\* The sign, hours and minutes of a well-formed descriptor.
ZoneOf(tz) ==
    LET signed == tz[4] \in {43, 45}
        body == IF signed THEN SubSeq(tz, 5, Len(tz)) ELSE SubSeq(tz, 4, Len(tz))
    IN  [sign |-> IF signed THEN tz[4] ELSE 43,
         hh |-> SubSeq(body, 1, 2), mm |-> SubSeq(body, 4, 5)]

\* The local rendering of the instant in the first 19 characters of dt.
LocalOf(dt, tz) ==
    LET zone == ZoneOf(tz)
        offset == 60 * DigitsValue(zone.hh, 0) + DigitsValue(zone.mm, 0)
        local == ShiftMinutes(FieldsOf(dt), IF zone.sign = 43 THEN offset ELSE 0 - offset)
    IN  PlainStamp(local.Y, <<local.M, local.D>>, local.h, local.m, local.s)
        \o <<46, 48, 48, 48>> \o <<zone.sign>> \o zone.hh \o <<58>> \o zone.mm

\* C23: for a timestamp YYYY-MM-DDTHH:MM:SS of an existing instant and a
\* descriptor GMT(sign)HH:MM the function returns the instant shifted by
\* sign*(60*HH+MM) minutes, with carry into hour, day, month and year, then
\* ".000", the sign, HH, ":" and MM as requested.
C23_ShiftedByOffset ==
    (zPc = "done" /\ Len(zDt) = 19 /\ ExistingInstant(zDt) /\ WellFormedDescriptor(zTz)) =>
        zOut = LocalOf(zDt, zTz)

\* A conversion that carried into the next year, and one that borrowed from
\* the 29th of February.
C23_Witness ==
    /\ zPc = "done"
    /\ Len(zDt) = 19 /\ ExistingInstant(zDt) /\ WellFormedDescriptor(zTz)
    /\ zOut = LocalOf(zDt, zTz)
    /\ \/ FieldsOf(zDt).M = 12 /\ FieldsOf(zOut).Y = FieldsOf(zDt).Y + 1
       \/ FieldsOf(zDt).M = 3 /\ FieldsOf(zOut).M = 2 /\ FieldsOf(zOut).D = 29

\* C24: with a well-formed descriptor, a timestamp with fractional seconds,
\* with a trailing Z or with both is converted to what the plain form of the
\* same instant gives, never to the empty string.
C24_AllFormsAccepted ==
    (zPc = "done" /\ ExistingInstant(zDt) /\ WellFormedDescriptor(zTz)) =>
        /\ zOut # <<>>
        /\ zOut = convert_utc_to_timezone(SubSeq(zDt, 1, 19), zTz)

\* C26: a call for one view never gets a result that was fetched for the
\* other view, however is_archived is passed.
C26_ViewScoped ==
    rLast.op = "call" => rLast.result.is_archived = rLast.is_archived

\* C27: after clear() of the cache of a prefix on a reachable store, get(k)
\* of that cache is a miss for every key k (a key that hits was stored
\* through the same cache: no other cache writes under its full keys).
C27_ClearEmptiesPrefix ==
    (rLast.op = "clear" /\ rClient) =>
        \A key \in Keys : RedisGet(rClient, rStore, rLast.prefix, key) = None

\* C29: a call with one API key never gets rows that were fetched from the
\* upstream with another API key.
C29_KeysIsolated ==
    rLast.op = "call" => rLast.result.api_key = rLast.api_key

\* A request that passes the validation of the handlers.
ValidRequest(req) == Len(req.api_key) >= 20 /\ StartsWith(req.timezone, GMT)

\* C25: a request for projects whose view has an entry in the cache is
\* answered with the cached rows, and no upstream fetch is started for it.
C25_HitServedFromCache ==
    ( /\ qPc = "responded"
      /\ qReq.endpoint = "projects"
      /\ ValidRequest(qReq)
      /\ Lookup(rStore, ProjectCacheKey(qReq.is_archived)) # None ) =>
        /\ qStatus = Ok
        /\ qBody = Lookup(rStore, ProjectCacheKey(qReq.is_archived))
        /\ ~ qFetch

\* C28: the client gets 401 for an API key of fewer than 20 characters,
\* 400 for a timezone that does not start with GMT, both with no fetch
\* started, and 504 when the fetch exceeds the time limit.
C28_ErrorStatusReachesClient ==
    qPc = "responded" =>
        /\ Len(qReq.api_key) < 20 => (qStatus = Unauthorized /\ ~ qFetch)
        /\ (Len(qReq.api_key) >= 20 /\ ~ StartsWith(qReq.timezone, GMT)) =>
               (qStatus = BadRequest /\ ~ qFetch)
        /\ (qFetch /\ qReq.upstream = "slow") => qStatus = GatewayTimeout

\* The project-id filter of a run: none for the project listing, the chunk
\* of the run for a dataset.
FilterOfRun(r) == IF r[1] = "projects" THEN <<>> ELSE Chunks(bIds)[r[2]]

\* The cursor of the last record of the page the upstream gives for a
\* request of a run.
LastCursorOf(r, variables) ==
    Last(UpstreamPage(r[1], variables, bUpProjects, bUpRecs)).cursor

\* C30: every request a run has sent carries the project-id filter of its
\* own chunk, and as cursor null in its first request and afterwards the
\* cursor of the last record of the page its own previous request got,
\* whatever the other runs sent in between.
C30_RequestsCarryOwnCursor ==
    \A r \in DOMAIN bRuns :
        \A k \in 1..Len(bRuns[r].sent) :
            /\ bRuns[r].sent[k].filter = FilterOfRun(r)
            /\ bRuns[r].sent[k].after =
                 IF k = 1 THEN NoCursor ELSE LastCursorOf(r, bRuns[r].sent[k - 1])

\* Two runs with different filters are both waiting for the answer to
\* their second request.
C30_Witness ==
    \E r, q \in DOMAIN bRuns :
        /\ FilterOfRun(r) # FilterOfRun(q)
        /\ bRuns[r].pc = "await" /\ Len(bRuns[r].sent) = 2
        /\ bRuns[q].pc = "await" /\ Len(bRuns[q].sent) = 2

=============================================================================
